---- MODULE Spec2Model ----
(***************************************************************************)
(* Model of the qmdverify client: the asynchronous job protocol            *)
(* (internal/api/client.go) and the result filter                          *)
(* (internal/commands/check.go).                                           *)
(*                                                                         *)
(* Time is a millisecond clock.  Only blocking operations take time: an    *)
(* HTTP round trip takes a latency chosen by the environment and           *)
(* time.Sleep(d) takes d.  The statements between two blocking operations  *)
(* run at one clock reading.                                               *)
(***************************************************************************)
EXTENDS Integers, Sequences, FiniteSets, TLC

(***************************************************************************)
(* Program constants, in milliseconds (client.go, const block).            *)
(***************************************************************************)
PollInterval == 500

PollIntervalSlow == 1000

PollSlowAfter == 10000

MaxPollingDuration == 60000

StatusOK == 200

StatusAccepted == 202

StatusInternalServerError == 500

(***************************************************************************)
(* Bounds of the model.                                                    *)
(***************************************************************************)
\* an HTTP round trip takes 0..MaxLatencySteps poll intervals
MaxLatencySteps == 1

\* longest compatible / incompatible list of a response under filtering
MaxResults == 2

Latencies == { k * PollInterval : k \in 0..MaxLatencySteps }

(***************************************************************************)
(* Go values: pointers, errors.                                            *)
(***************************************************************************)
NilPtr == [nil |-> TRUE]

Ptr(x) == [nil |-> FALSE, v |-> x]

NoErr == [isErr |-> FALSE]

Errorf(m) == [isErr |-> TRUE, msg |-> m]

\* time.Duration formatted with %v, for whole seconds below one hour
DurationString(ms) ==
  LET secs == ms \div 1000
  IN  IF secs < 60
        THEN ToString(secs) \o "s"
        ELSE ToString(secs \div 60) \o "m" \o ToString(secs % 60) \o "s"

(***************************************************************************)
(* api.ComparisonResult and api.ComparisonResponse.  A version string is   *)
(* the sequence of its characters.                                         *)
(***************************************************************************)
ComparisonResult(dev, ver, ok, detail, deps) ==
  [Device |-> dev, OSVersion |-> ver, Compatible |-> ok,
   ErrorDetail |-> detail, DependencyResults |-> deps]

ComparisonResponse(c, i, n, m) ==
  [Compatible |-> c, Incompatible |-> i, TotalChecked |-> n, Mode |-> m]

\* the zero value of the struct
ZeroComparisonResponse == ComparisonResponse(<< >>, << >>, 0, "")

(***************************************************************************)
(* JSON.  A body is either not JSON at all (InvalidBody) or a JSON value:  *)
(* null, a string, a number, an array or an object.  An object is a        *)
(* function from its keys to JSON values.  The elements of an array are    *)
(* taken as well-typed result objects.                                     *)
(***************************************************************************)
InvalidBody == [kind |-> "invalid"]

JNull == [kind |-> "null"]

JString(s) == [kind |-> "string", s |-> s]

JNumber(n) == [kind |-> "number", n |-> n]

JArray(a) == [kind |-> "array", a |-> a]

JObject(o) == [kind |-> "object", o |-> o]

JAbsent == [kind |-> "absent"]

Member(o, key) == IF key \in DOMAIN o THEN o[key] ELSE JAbsent

\* json.Unmarshal of one member into a Go field of the given JSON kind:
\* an absent or null member leaves the field alone, a member of another
\* kind is an UnmarshalTypeError
Takes(j, kind) == j.kind \in {"absent", "null", kind}

StringField(j) == IF j.kind = "string" THEN j.s ELSE ""

IntField(j) == IF j.kind = "number" THEN j.n ELSE 0

SliceField(j) == IF j.kind = "array" THEN j.a ELSE << >>

\* json.Unmarshal of an object's members into a ComparisonResponse
DecodeComparisonObject(o) ==
  [ok |-> /\ Takes(Member(o, "compatible"), "array")
          /\ Takes(Member(o, "incompatible"), "array")
          /\ Takes(Member(o, "total_checked"), "number")
          /\ Takes(Member(o, "mode"), "string"),
   v  |-> ComparisonResponse(SliceField(Member(o, "compatible")),
                             SliceField(Member(o, "incompatible")),
                             IntField(Member(o, "total_checked")),
                             StringField(Member(o, "mode")))]

\* json.Unmarshal of any JSON value into a ComparisonResponse struct
DecodeComparisonValue(j) ==
  CASE j.kind = "null"   -> [ok |-> TRUE, v |-> ZeroComparisonResponse]
    [] j.kind = "object" -> DecodeComparisonObject(j.o)
    [] OTHER             -> [ok |-> FALSE, v |-> ZeroComparisonResponse]

\* json.Unmarshal(bodyBytes, &directResult)
UnmarshalComparisonResponse(body) == DecodeComparisonValue(body)

JobResultsResponse(st, res, e, m) ==
  [Status |-> st, Results |-> res, Error |-> e, Message |-> m]

ZeroJobResultsResponse == JobResultsResponse("", NilPtr, "", "")

\* an envelope whose Results is a struct, not a pointer: null leaves the
\* zero struct
DecodeResultsMemberByValue(j) ==
  CASE j.kind \in {"absent", "null"} ->
         [ok |-> TRUE, v |-> Ptr(ZeroComparisonResponse)]
    [] j.kind = "object" -> LET d == DecodeComparisonObject(j.o)
                            IN  [ok |-> d.ok, v |-> Ptr(d.v)]
    [] OTHER -> [ok |-> FALSE, v |-> NilPtr]

\* the "results" member of the envelope, a *ComparisonResponse
DecodeResultsMember(j) ==
  CASE j.kind \in {"absent", "null"} -> [ok |-> TRUE, v |-> NilPtr]
    [] j.kind = "object" -> LET d == DecodeComparisonObject(j.o)
                            IN  [ok |-> d.ok, v |-> Ptr(d.v)]
    [] OTHER -> [ok |-> FALSE, v |-> NilPtr]

\* json.Unmarshal(bodyBytes, &jobResult)
UnmarshalJobResultsResponse(body) ==
  CASE body.kind = "null" -> [ok |-> TRUE, v |-> ZeroJobResultsResponse]
    [] body.kind = "object" ->
         LET o == body.o
             r == DecodeResultsMember(Member(o, "results"))
         IN  [ok |-> /\ Takes(Member(o, "status"), "string")
                     /\ r.ok
                     /\ Takes(Member(o, "error"), "string")
                     /\ Takes(Member(o, "message"), "string"),
              v  |-> JobResultsResponse(StringField(Member(o, "status")), r.v,
                                        StringField(Member(o, "error")),
                                        StringField(Member(o, "message")))]
    [] OTHER -> [ok |-> FALSE, v |-> ZeroJobResultsResponse]

\* json.NewDecoder(resp.Body).Decode(&errResp) of a non-200 answer
UnmarshalErrorResponse(body) ==
  CASE body.kind = "null" -> [ok |-> TRUE, v |-> ""]
    [] body.kind = "object" ->
         [ok |-> Takes(Member(body.o, "error"), "string"),
          v  |-> StringField(Member(body.o, "error"))]
    [] OTHER -> [ok |-> FALSE, v |-> ""]

\* json.NewDecoder(resp.Body).Decode(&jobResp) of a submit answer
UnmarshalCompareJobResponse(body) ==
  CASE body.kind = "null" -> [ok |-> TRUE, v |-> ""]
    [] body.kind = "object" ->
         [ok |-> Takes(Member(body.o, "jobId"), "string"),
          v  |-> StringField(Member(body.o, "jobId"))]
    [] OTHER -> [ok |-> FALSE, v |-> ""]

\* a BatchComparisonResponse: a Go map, possibly the nil map
BatchMap(isNil, files) == [nilMap |-> isNil, files |-> files]

\* json.Unmarshal(bodyBytes, &batchResult): every member of the object
\* must decode as a ComparisonResponse
UnmarshalBatchComparisonResponse(body) ==
  CASE body.kind = "null" -> [ok |-> TRUE, v |-> BatchMap(TRUE, << >>)]
    [] body.kind = "object" ->
         [ok |-> \A k \in DOMAIN body.o : DecodeComparisonValue(body.o[k]).ok,
          v  |-> BatchMap(FALSE,
                   [k \in DOMAIN body.o |-> DecodeComparisonValue(body.o[k]).v])]
    [] OTHER -> [ok |-> FALSE, v |-> BatchMap(TRUE, << >>)]

(***************************************************************************)
(* HTTP answers.  Do() either fails (a transport error, which includes the *)
(* client's own RequestTimeout) or returns a status code and a body.       *)
(***************************************************************************)
TransportFailure == [sent |-> FALSE, code |-> 0, body |-> InvalidBody]

Answer(code, body) == [sent |-> TRUE, code |-> code, body |-> body]

\* the three values a poll hands back: (result pointer, status, error)
Triple(res, st, e) == [results |-> res, status |-> st, err |-> e]

\* the non-200 branch: decode an ErrorResponse
NonOKError(resp) ==
  LET e == UnmarshalErrorResponse(resp.body)
  IN  IF ~e.ok
        THEN Errorf("server returned status " \o ToString(resp.code))
        ELSE Errorf("server error: " \o e.v)

\* the content test on the bare result
HasResults(r) ==
  r.TotalChecked > 0 \/ Len(r.Compatible) > 0 \/ Len(r.Incompatible) > 0

\* a decoder that never looks at the "message" member
JobErrorMessageErrorOnly(j) ==
  IF j.Error # "" THEN j.Error ELSE "unknown error"

\* the message of a job whose envelope says "error"
JobErrorMessage(j) ==
  IF j.Error # "" THEN j.Error
  ELSE IF j.Message # "" THEN j.Message
  ELSE "unknown error"

\* a decoder that reads the envelope first and the bare result only when
\* the envelope has no status
DecodeBodyEnvelopeFirst(body) ==
  LET direct == UnmarshalComparisonResponse(body)
      job    == UnmarshalJobResultsResponse(body)
  IN  IF job.ok /\ job.v.Status = "error"
        THEN Triple(NilPtr, "error", Errorf(JobErrorMessage(job.v)))
      ELSE IF job.ok /\ job.v.Status # ""
        THEN Triple(job.v.Results, job.v.Status, NoErr)
      ELSE IF direct.ok /\ HasResults(direct.v)
        THEN Triple(Ptr(direct.v), "success", NoErr)
      ELSE IF ~job.ok
        THEN Triple(NilPtr, "", Errorf("failed to decode results"))
      ELSE Triple(job.v.Results, job.v.Status, NoErr)

\* the two readings of a 200 body, in the order of getJobResults
DecodeBody(body) ==
  LET direct == UnmarshalComparisonResponse(body)
      job    == UnmarshalJobResultsResponse(body)
  IN  IF direct.ok /\ HasResults(direct.v)
        THEN Triple(Ptr(direct.v), "success", NoErr)
      ELSE IF ~job.ok
        THEN Triple(NilPtr, "", Errorf("failed to decode results"))
      ELSE IF job.v.Status = "error"
        THEN Triple(NilPtr, "error", Errorf(JobErrorMessage(job.v)))
      ELSE Triple(job.v.Results, job.v.Status, NoErr)

\* a client that does not know 202: it is one more non-200 status
getJobResultsNoAccepted(resp) ==
  IF ~resp.sent
    THEN Triple(NilPtr, "", Errorf("failed to send request"))
  ELSE IF resp.code # StatusOK
    THEN Triple(NilPtr, "", NonOKError(resp))
  ELSE DecodeBody(resp.body)

\* a client that takes every non-200 status as "not ready yet"
getJobResultsRetryNonOK(resp) ==
  IF ~resp.sent
    THEN Triple(NilPtr, "", Errorf("failed to send request"))
  ELSE IF resp.code # StatusOK
    THEN Triple(NilPtr, "running", NoErr)
  ELSE DecodeBody(resp.body)

getJobResults(resp) ==
  IF ~resp.sent
    THEN Triple(NilPtr, "", Errorf("failed to send request"))
  ELSE IF resp.code = StatusAccepted
    THEN Triple(NilPtr, "running", NoErr)
  ELSE IF resp.code # StatusOK
    THEN Triple(NilPtr, "", NonOKError(resp))
  ELSE DecodeBody(resp.body)

getBatchJobResults(resp) ==
  IF ~resp.sent
    THEN Triple(NilPtr, "", Errorf("failed to send request"))
  ELSE IF resp.code = StatusAccepted
    THEN Triple(NilPtr, "running", NoErr)
  ELSE IF resp.code # StatusOK
    THEN Triple(NilPtr, "", NonOKError(resp))
  ELSE
    LET batch == UnmarshalBatchComparisonResponse(resp.body)
    IN  IF ~batch.ok
          THEN Triple(NilPtr, "", Errorf("failed to decode batch results"))
          ELSE Triple(Ptr(batch.v), "success", NoErr)

(***************************************************************************)
(* The submit step of submitCompareJob / submitCompareJobMulti, after the  *)
(* request went out: from the answer to (job id, error).                   *)
(***************************************************************************)
SubmitResult(id, e) == [jobID |-> id, err |-> e]

\* a submit that hands back whatever id the server sent
submitCompareJobAnyID(resp) ==
  IF ~resp.sent
    THEN SubmitResult("", Errorf("failed to send request"))
  ELSE IF resp.code # StatusOK
    THEN SubmitResult("", NonOKError(resp))
  ELSE
    LET job == UnmarshalCompareJobResponse(resp.body)
    IN  IF ~job.ok
          THEN SubmitResult("", Errorf("failed to decode job response"))
          ELSE SubmitResult(job.v, NoErr)

submitCompareJob(resp) ==
  IF ~resp.sent
    THEN SubmitResult("", Errorf("failed to send request"))
  ELSE IF resp.code # StatusOK
    THEN SubmitResult("", NonOKError(resp))
  ELSE
    LET job == UnmarshalCompareJobResponse(resp.body)
    IN  IF ~job.ok
          THEN SubmitResult("", Errorf("failed to decode job response"))
        ELSE IF job.v = ""
          THEN SubmitResult("", Errorf("server returned empty job ID"))
        ELSE SubmitResult(job.v, NoErr)

(***************************************************************************)
(* What the server and the network may answer.                             *)
(***************************************************************************)
\* "3.22" and "3.21", character by character
V322 == << "3", ".", "2", "2" >>

V321 == << "3", ".", "2", "1" >>

ResOK == ComparisonResult("rmpp", V322, TRUE, "", {})

ResBad == ComparisonResult("rm1", V322, FALSE, "Hash not found", {})

FullResult ==
  [compatible |-> JArray(<< ResOK >>), incompatible |-> JArray(<< ResBad >>),
   total_checked |-> JNumber(2), mode |-> JString("hash")]

EmptyResult ==
  [compatible |-> JArray(<< >>), incompatible |-> JArray(<< >>),
   total_checked |-> JNumber(0)]

SubmitAnswers ==
  { TransportFailure,
    Answer(StatusOK, JObject([jobId |-> JString("job-1")])),
    Answer(StatusOK, JObject([jobId |-> JString("")])),
    Answer(StatusOK, JObject([error |-> JString("E1")])),
    Answer(StatusOK, JObject([jobId |-> JNumber(7)])),
    Answer(StatusOK, JNull),
    Answer(StatusOK, InvalidBody),
    Answer(StatusAccepted, JObject([jobId |-> JString("job-1")])),
    Answer(StatusInternalServerError, JObject([error |-> JString("E1")])),
    Answer(StatusInternalServerError, InvalidBody) }

\* envelopes of a job that is not finished
ProcessingBodies ==
  { JObject([status |-> JString("running")]),
    JObject([status |-> JString("pending")]) }

\* answers that mean "still processing" to pollJobResults
ProcessingAnswers ==
  { Answer(StatusOK, b) : b \in ProcessingBodies }
  \cup { Answer(StatusAccepted, b) :
           b \in { InvalidBody, JObject(FullResult),
                   JObject([status |-> JString("error")]) } }

\* bodies that end a single-file job
FinalBodies ==
  { JObject(FullResult),
    JObject(EmptyResult),
    JObject([status |-> JString("success"), results |-> JObject(FullResult)]),
    JObject([status |-> JString("success"), results |-> JObject(EmptyResult)]),
    JObject([status |-> JString("success"), results |-> JNull]),
    JObject([status |-> JString("success")]),
    JObject([status |-> JString("error"), error |-> JString("E1"),
             message |-> JString("M1")]),
    JObject([status |-> JString("error"), message |-> JString("M1")]),
    JObject([status |-> JString("error")]),
    JObject([status |-> JString("done")]),
    JObject([status |-> JString("")]),
    JObject([message |-> JString("M1")]),
    JObject([status |-> JNumber(1)]),
    JObject([status |-> JString("running"), results |-> JString("x")]),
    JObject([status |-> JString("running"), total_checked |-> JNumber(1)]),
    JObject([status |-> JString("error"), error |-> JString("E1"),
             compatible |-> JArray(<< ResOK >>)]),
    JObject([status |-> JString("success"), total_checked |-> JString("2"),
             results |-> JObject(FullResult)]),
    JNull,
    JString("ok"),
    InvalidBody }

PollAnswers ==
  ProcessingAnswers
  \cup { Answer(StatusOK, b) : b \in FinalBodies }
  \cup { TransportFailure,
         Answer(StatusInternalServerError, JObject([error |-> JString("E1")])),
         Answer(StatusInternalServerError, InvalidBody) }

\* bodies of a batch poll: a map from file name to result
BatchBodies ==
  { JObject([a |-> JObject(FullResult), b |-> JObject(EmptyResult)]),
    JObject([a |-> JObject(FullResult), b |-> JNull]),
    JObject(<< >>),
    JObject([status |-> JString("running")]),
    JObject([status |-> JString("error"), error |-> JString("E1")]),
    JNull,
    InvalidBody }

BatchPollAnswers ==
  { Answer(StatusAccepted, InvalidBody),
    Answer(StatusAccepted, JObject([status |-> JString("running")])) }
  \cup { Answer(StatusOK, b) : b \in BatchBodies }
  \cup { TransportFailure,
         Answer(StatusInternalServerError, JObject([error |-> JString("E1")])) }

(***************************************************************************)
(* The filter engine (commands/check.go).  Strings that are parsed are     *)
(* sequences of one-character strings.                                     *)
(***************************************************************************)
Digits == { "0", "1", "2", "3", "4", "5", "6", "7", "8", "9" }

DigitValue(c) ==
  CASE c = "0" -> 0 [] c = "1" -> 1 [] c = "2" -> 2 [] c = "3" -> 3
    [] c = "4" -> 4 [] c = "5" -> 5 [] c = "6" -> 6 [] c = "7" -> 7
    [] c = "8" -> 8 [] c = "9" -> 9

RECURSIVE SplitFrom(_, _, _)
\* strings.Split(s, "."), scanning from position i with the segment `cur`
SplitFrom(s, i, cur) ==
  IF i > Len(s) THEN << cur >>
  ELSE IF s[i] = "." THEN << cur >> \o SplitFrom(s, i + 1, << >>)
  ELSE SplitFrom(s, i + 1, Append(cur, s[i]))

Split(s) == SplitFrom(s, 1, << >>)

RECURSIVE DigitsValue(_, _)
\* the value of a run of decimal digits, given the value read so far
DigitsValue(ds, acc) ==
  IF ds = << >> THEN acc
  ELSE DigitsValue(Tail(ds), 10 * acc + DigitValue(Head(ds)))

\* strconv.Atoi: an optional sign, then one or more decimal digits
Atoi(seg) ==
  LET signed == seg # << >> /\ Head(seg) \in {"+", "-"}
      ds     == IF signed THEN Tail(seg) ELSE seg
  IN  IF ds = << >> \/ \E i \in DOMAIN ds : ds[i] \notin Digits
        THEN [ok |-> FALSE, n |-> 0]
        ELSE [ok |-> TRUE,
              n  |-> IF signed /\ Head(seg) = "-"
                       THEN 0 - DigitsValue(ds, 0)
                       ELSE DigitsValue(ds, 0)]

\* one iteration of the loop of matchesVersionPrefix
SegmentMatches(versionPart, prefixPart) ==
  LET p == Atoi(prefixPart)
      v == Atoi(versionPart)
  IN  IF ~p.ok \/ ~v.ok
        THEN versionPart = prefixPart
        ELSE v.n = p.n

\* strings.HasPrefix(version, prefix): a prefix by characters
matchesVersionPrefixByChars(version, prefix) ==
  /\ Len(prefix) <= Len(version)
  /\ SubSeq(version, 1, Len(prefix)) = prefix

matchesVersionPrefix(version, prefix) ==
  LET versionParts == Split(version)
      prefixParts  == Split(prefix)
  IN  IF Len(prefixParts) > Len(versionParts)
        THEN FALSE
        ELSE \A i \in DOMAIN prefixParts :
               SegmentMatches(versionParts[i], prefixParts[i])

\* a filter that lets a result through when either predicate holds
matchesFilterEither(result, devs, vers) ==
  \/ Len(devs) = 0
  \/ \E i \in DOMAIN devs : result.Device = devs[i]
  \/ Len(vers) = 0
  \/ \E i \in DOMAIN vers : matchesVersionPrefix(result.OSVersion, vers[i])

matchesFilter(result, devs, vers) ==
  LET deviceMatch  == Len(devs) = 0
                      \/ \E i \in DOMAIN devs : result.Device = devs[i]
      versionMatch == Len(vers) = 0
                      \/ \E i \in DOMAIN vers :
                           matchesVersionPrefix(result.OSVersion, vers[i])
  IN  deviceMatch /\ versionMatch

\* a loop that stops one element short of the end of the list
KeepAllButLast(list, devs, vers) ==
  LET Passes(r) == matchesFilter(r, devs, vers)
  IN  IF list = << >> THEN << >>
      ELSE SelectSeq(SubSeq(list, 1, Len(list) - 1), Passes)

RECURSIVE Keep(_, _, _)
\* the results of a list that pass the filter, in order
Keep(list, devs, vers) ==
  IF list = << >> THEN << >>
  ELSE IF matchesFilter(Head(list), devs, vers)
    THEN << Head(list) >> \o Keep(Tail(list), devs, vers)
    ELSE Keep(Tail(list), devs, vers)

\* filterResponse without the early return of lines 104-106
filterResponseAlwaysRebuilds(response, devs, vers) ==
  LET c == Keep(response.Compatible, devs, vers)
      i == Keep(response.Incompatible, devs, vers)
  IN  ComparisonResponse(c, i, Len(c) + Len(i), "")

filterResponse(response, devs, vers) ==
  IF Len(devs) = 0 /\ Len(vers) = 0
    THEN response
    ELSE LET c == Keep(response.Compatible, devs, vers)
             i == Keep(response.Incompatible, devs, vers)
         IN  ComparisonResponse(c, i, Len(c) + Len(i), "")

(***************************************************************************)
(* The file filter (commands/check.go 235-251).  filepath.Match is the     *)
(* shell glob of the Go library on a system whose separator is "/": "*"    *)
(* stands for any run of non-separator characters, "?" for one             *)
(* non-separator character, "[...]" for one character of a class, a        *)
(* backslash quotes the next character.  A malformed pattern is an error,  *)
(* which matchesFileFilter treats as no match.                             *)
(***************************************************************************)
Separator == "/"

\* the characters of names and patterns, in code point order
CodeOrder ==
  << "*", "+", "-", ".", "/",
     "0", "1", "2", "3", "4", "5", "6", "7", "8", "9",
     "?", "[", "\\", "]", "^", "_",
     "a", "b", "c", "d", "e", "f", "g", "h", "i", "j", "k", "l", "m",
     "n", "o", "p", "q", "r", "s", "t", "u", "v", "w", "x", "y", "z" >>

Code(c) == CHOOSE k \in DOMAIN CodeOrder : CodeOrder[k] = c

BadEsc == [ok |-> FALSE, c |-> "", next |-> 0]

\* getEsc: one character of a class at position k, possibly quoted; the
\* class has to go on after it
GetEsc(p, k) ==
  IF k > Len(p) \/ p[k] \in { "-", "]" } THEN BadEsc
  ELSE LET at == IF p[k] = "\\" THEN k + 1 ELSE k
       IN  IF at + 1 > Len(p) THEN BadEsc
           ELSE [ok |-> TRUE, c |-> p[at], next |-> at + 1]

BadClass == [ok |-> FALSE, hit |-> FALSE, next |-> 0]

RECURSIVE ClassItems(_, _, _, _, _)
\* the ranges of a class from position k on, against the character c
ClassItems(p, k, nrange, c, hit) ==
  IF k <= Len(p) /\ p[k] = "]" /\ nrange > 0
    THEN [ok |-> TRUE, hit |-> hit, next |-> k + 1]
  ELSE LET lo == GetEsc(p, k)
       IN  IF ~lo.ok THEN BadClass
           ELSE IF p[lo.next] = "-"
             THEN LET hi == GetEsc(p, lo.next + 1)
                  IN  IF ~hi.ok THEN BadClass
                      ELSE ClassItems(p, hi.next, nrange + 1, c,
                             hit \/ (Code(lo.c) <= Code(c)
                                       /\ Code(c) <= Code(hi.c)))
             ELSE ClassItems(p, lo.next, nrange + 1, c, hit \/ lo.c = c)

\* the class that opens at position i, against the character c
Class(p, i, c) ==
  LET negated == i + 1 <= Len(p) /\ p[i + 1] = "^"
      items   == ClassItems(p, IF negated THEN i + 2 ELSE i + 1, 0, c, FALSE)
  IN  [ok |-> items.ok, hit |-> items.ok /\ (items.hit # negated),
       next |-> items.next]

RECURSIVE MatchFrom(_, _, _, _)
\* the pattern from position i on matches the name from position j on
MatchFrom(p, i, n, j) ==
  IF i > Len(p) THEN j > Len(n)
  ELSE IF p[i] = "*"
    THEN \E k \in j..(Len(n) + 1) :
           /\ \A m \in j..(k - 1) : n[m] # Separator
           /\ MatchFrom(p, i + 1, n, k)
  ELSE IF j > Len(n) THEN FALSE
  ELSE IF p[i] = "?"
    THEN n[j] # Separator /\ MatchFrom(p, i + 1, n, j + 1)
  ELSE IF p[i] = "["
    THEN LET cl == Class(p, i, n[j])
         IN  cl.ok /\ cl.hit /\ MatchFrom(p, cl.next, n, j + 1)
  ELSE IF p[i] = "\\"
    THEN i + 1 <= Len(p) /\ n[j] = p[i + 1] /\ MatchFrom(p, i + 2, n, j + 1)
  ELSE n[j] = p[i] /\ MatchFrom(p, i + 1, n, j + 1)

\* matched, err := filepath.Match(filter, filename); err == nil && matched
Match(pattern, name) == MatchFrom(pattern, 1, name, 1)

\* strings.Contains(filename, filter)
Contains(s, substr) ==
  \E k \in 0..(Len(s) - Len(substr)) :
    SubSeq(s, k + 1, k + Len(substr)) = substr

\* a file filter that knows globs only
matchesFileFilterGlobOnly(filename, filters) ==
  Len(filters) = 0 \/ \E k \in DOMAIN filters : Match(filters[k], filename)

matchesFileFilter(filename, filters) ==
  IF Len(filters) = 0 THEN TRUE
  ELSE \E k \in DOMAIN filters :
         Match(filters[k], filename) \/ Contains(filename, filters[k])

(***************************************************************************)
(* State of one call of CompareQMD (mode "single") or CompareQMDFiles      *)
(* (mode "batch").                                                         *)
(***************************************************************************)
VARIABLES
  mode,           \* which of the two calls this is
  files,          \* per file of the call: can os.Open open it
  pc,             \* "start", "submitting", "loop", "polling", "sleeping", "done"
  clock,          \* time.Now(), in ms
  startTime,      \* pollJobResults: startTime
  pollInterval,   \* pollJobResults: pollInterval
  jobID,          \* the handle the submit returned
  sleepFor,       \* argument of the time.Sleep in progress
  submitResp,     \* the HTTP answer of the submit
  lastResp,       \* the HTTP answer of the poll being handled
  got,            \* the loop's results, status, err of that poll
  ret,            \* what the call returned: (result, error)
  submitsSent,    \* POST /api/compare requests sent
  pollsSent,      \* GET /api/results/<id> requests sent
  polledJob,      \* the id in the URL of the last poll
  lastSentAt,     \* clock reading when the last poll was sent
  processingSeen, \* polls answered "still processing"
  sleeps,         \* completed time.Sleep calls
  resp,           \* filter engine: the response handed to filterResponse
  devices,        \* filter engine: the device filter
  versions,       \* filter engine: the version filter
  filtered,       \* filter engine: what filterResponse returned
  refiltered,     \* filter engine: filterResponse applied to `filtered`
  versionSegs,    \* matchesVersionPrefix: the segments of its version
  prefixSegs,     \* matchesVersionPrefix: the segments of its prefix
  prefixMatch,    \* matchesVersionPrefix: what it returned
  fileName,       \* matchesFileFilter: the filename
  fileFilter,     \* the --file patterns
  fileMatch,      \* matchesFileFilter: what it returned
  batch,          \* runCheck: batchResponse
  rootFiles,      \* runCheck: what identifyRootFiles returned
  failedOnly,     \* the --failed-only flag
  rc,             \* runCheck: "idle", "single", "batch", "range", "exit"
  pending,        \* runCheck: the files the range loop has yet to visit
  output,         \* what the run has written so far
  hasIncompatible,\* runCheck: hasIncompatible
  exitCode,       \* the exit code of the process, once it has ended
  matrix,         \* display: what buildCompatibilityMatrix returned
  deviceCols,     \* display: what getDeviceOrder returned
  versionRows,    \* display: what getSortedVersions returned
  args,           \* runCheck: the arguments of the command line
  earlierOutput   \* what an earlier run over the same batch wrote

clientVars ==
  << mode, files, pc, clock, startTime, pollInterval, jobID, sleepFor,
     submitResp, lastResp, got, ret, submitsSent, pollsSent, polledJob, lastSentAt,
     processingSeen, sleeps >>

filterVars == << resp, devices, versions, filtered, refiltered >>

versionVars == << versionSegs, prefixSegs, prefixMatch >>

fileVars == << fileName, fileFilter, fileMatch >>

checkVars ==
  << batch, rootFiles, failedOnly, rc, pending, output, hasIncompatible,
     exitCode >>

displayVars == << matrix, deviceCols, versionRows >>

runVars == << args, earlierOutput >>

restVars == << displayVars, runVars >>

commandVars == << filterVars, versionVars, fileVars, checkVars, restVars >>

vars == << clientVars, commandVars >>

NoAnswer == [sent |-> FALSE, code |-> -1, body |-> InvalidBody]

\* the loop's locals before a poll returned
NoTriple == Triple(NilPtr, "", NoErr)

Return(res, e) == [result |-> res, err |-> e]

\* number of files of a batch call
NumBatchFiles == 2

TimeoutError ==
  Errorf("job polling timed out after " \o DurationString(MaxPollingDuration))

\* the filter engine at rest
FilterIdle ==
  /\ resp = ZeroComparisonResponse
  /\ devices = << >>
  /\ versions = << >>
  /\ filtered = NilPtr
  /\ refiltered = NilPtr

\* no call of matchesVersionPrefix under way
VersionIdle ==
  /\ versionSegs = << >>
  /\ prefixSegs = << >>
  /\ prefixMatch = NilPtr

\* no call of matchesFileFilter under way
FileIdle ==
  /\ fileName = << >>
  /\ fileFilter = << >>
  /\ fileMatch = NilPtr

\* runCheck not started
CheckIdle ==
  /\ batch = BatchMap(TRUE, << >>)
  /\ rootFiles = NilPtr
  /\ failedOnly = FALSE
  /\ rc = "idle"
  /\ pending = {}
  /\ output = << >>
  /\ hasIncompatible = FALSE
  /\ exitCode = NilPtr

\* nothing drawn, no arguments read, no earlier run
RestIdle ==
  /\ matrix = NilPtr
  /\ deviceCols = NilPtr
  /\ versionRows = NilPtr
  /\ args = << >>
  /\ earlierOutput = NilPtr

CommandIdle ==
  FilterIdle /\ VersionIdle /\ FileIdle /\ CheckIdle /\ RestIdle

\* the client before its call: nothing sent, nothing returned
ClientFresh ==
  /\ pc = "start"
  /\ clock = 0
  /\ startTime = 0
  /\ pollInterval = 0
  /\ jobID = ""
  /\ sleepFor = 0
  /\ submitResp = NoAnswer
  /\ lastResp = NoAnswer
  /\ got = NoTriple
  /\ ret = Return(NilPtr, NoErr)
  /\ submitsSent = 0
  /\ pollsSent = 0
  /\ polledJob = ""
  /\ lastSentAt = 0
  /\ processingSeen = 0
  /\ sleeps = 0

ClientInit ==
  /\ mode \in {"single", "batch"}
  /\ files \in [1..(IF mode = "single" THEN 1 ELSE NumBatchFiles) -> BOOLEAN]
  /\ ClientFresh

Init == ClientInit /\ CommandIdle

\* the call returns
Finish(res, e) ==
  /\ pc' = "done"
  /\ ret' = Return(res, e)

\* submitCompareJob / submitCompareJobMulti up to the first failing
\* os.Open: no request is built
SubmitOpenFail ==
  /\ pc = "start"
  /\ \E i \in DOMAIN files : ~files[i]
  /\ Finish(NilPtr, Errorf("failed to open file"))
  /\ UNCHANGED << mode, files, clock, startTime, pollInterval, jobID,
                  sleepFor, submitResp, lastResp, got, submitsSent, pollsSent,
                  polledJob, lastSentAt, processingSeen, sleeps, commandVars >>

\* every file was read into the multipart body; HTTPClient.Do sends it
SubmitSend ==
  /\ pc = "start"
  /\ \A i \in DOMAIN files : files[i]
  /\ pc' = "submitting"
  /\ submitsSent' = submitsSent + 1
  /\ UNCHANGED << mode, files, clock, startTime, pollInterval, jobID,
                  sleepFor, submitResp, lastResp, got, ret, pollsSent,
                  polledJob, lastSentAt, processingSeen, sleeps, commandVars >>

\* the submit answer arrives; on success the call enters pollJobResults /
\* pollBatchJobResults, which reads the clock and sets the fast interval
SubmitReturn ==
  /\ pc = "submitting"
  /\ \E a \in SubmitAnswers, lat \in Latencies :
       LET r == submitCompareJob(a)
       IN  /\ clock' = clock + lat
           /\ submitResp' = a
           /\ IF r.err.isErr
                THEN /\ Finish(NilPtr, r.err)
                     /\ UNCHANGED << jobID, startTime, pollInterval >>
                ELSE /\ jobID' = r.jobID
                     /\ startTime' = clock'
                     /\ pollInterval' = PollInterval
                     /\ pc' = "loop"
                     /\ UNCHANGED ret
  /\ UNCHANGED << mode, files, sleepFor, lastResp, got, submitsSent,
                  pollsSent, polledJob, lastSentAt, processingSeen, sleeps,
                  commandVars >>

\* a loop that measures from its last poll instead of from its start
ElapsedSinceLastPoll == clock - lastSentAt

\* time.Since(startTime)
Elapsed == clock - startTime

\* top of the loop, past the deadline
PollTimeout ==
  /\ pc = "loop"
  /\ Elapsed > MaxPollingDuration
  /\ Finish(NilPtr, TimeoutError)
  /\ UNCHANGED << mode, files, clock, startTime, pollInterval, jobID,
                  sleepFor, submitResp, lastResp, got, submitsSent, pollsSent,
                  polledJob, lastSentAt, processingSeen, sleeps, commandVars >>

\* a loop that slows down on reaching the threshold, not on passing it
NextIntervalAtThreshold(elapsed, interval) ==
  IF elapsed >= PollSlowAfter THEN PollIntervalSlow ELSE interval

\* the interval the loop continues with
NextInterval(elapsed, interval) ==
  IF elapsed > PollSlowAfter THEN PollIntervalSlow ELSE interval

\* a loop that tests the deadline only after the poll
PollSendUnguarded ==
  /\ pc = "loop"
  /\ pollInterval' = NextInterval(Elapsed, pollInterval)
  /\ pc' = "polling"
  /\ pollsSent' = pollsSent + 1
  /\ polledJob' = jobID
  /\ lastSentAt' = clock
  /\ lastResp' = NoAnswer
  /\ got' = NoTriple
  /\ UNCHANGED << mode, files, clock, startTime, jobID, sleepFor, submitResp,
                  ret, submitsSent, processingSeen, sleeps, commandVars >>

\* top of the loop, within the deadline: pick the interval, send the poll
PollSend ==
  /\ pc = "loop"
  /\ ~(Elapsed > MaxPollingDuration)
  /\ pollInterval' = NextInterval(Elapsed, pollInterval)
  /\ pc' = "polling"
  /\ pollsSent' = pollsSent + 1
  /\ polledJob' = jobID
  /\ lastSentAt' = clock
  /\ lastResp' = NoAnswer
  /\ got' = NoTriple
  /\ UNCHANGED << mode, files, clock, startTime, jobID, sleepFor, submitResp,
                  ret, submitsSent, processingSeen, sleeps, commandVars >>

\* a loop that looks at the deadline again before it acts on an answer
DecodeUnlessLate(a) ==
  IF clock' - startTime > MaxPollingDuration
    THEN Triple(NilPtr, "", TimeoutError)
  ELSE IF mode = "single" THEN getJobResults(a) ELSE getBatchJobResults(a)

\* the decoder of the mode
Decode(a) ==
  IF mode = "single" THEN getJobResults(a) ELSE getBatchJobResults(a)

\* the answer of a poll arrives and the switch of the loop acts on it
PollReturn(answers) ==
  /\ pc = "polling"
  /\ \E a \in answers, lat \in Latencies :
       LET t == Decode(a)
       IN  /\ clock' = clock + lat
           /\ lastResp' = a
           /\ got' = t
           /\ IF t.err.isErr
                THEN /\ Finish(NilPtr, t.err)
                     /\ UNCHANGED << sleepFor, processingSeen >>
              ELSE IF t.status = "success"
                THEN /\ IF t.results.nil
                          THEN Finish(NilPtr,
                                 Errorf("job succeeded but no results returned"))
                          ELSE Finish(t.results, NoErr)
                     /\ UNCHANGED << sleepFor, processingSeen >>
              ELSE IF t.status = "error"
                THEN /\ Finish(NilPtr, Errorf("job failed on server"))
                     /\ UNCHANGED << sleepFor, processingSeen >>
              ELSE IF t.status \in {"running", "pending"}
                THEN /\ pc' = "sleeping"
                     /\ sleepFor' = pollInterval
                     /\ processingSeen' = processingSeen + 1
                     /\ UNCHANGED ret
              ELSE /\ Finish(NilPtr,
                        Errorf("unknown job status: " \o t.status))
                   /\ UNCHANGED << sleepFor, processingSeen >>
  /\ UNCHANGED << mode, files, startTime, pollInterval, jobID, submitResp,
                  submitsSent, pollsSent, polledJob, lastSentAt, sleeps,
                  commandVars >>

\* time.Sleep(pollInterval) returns
Sleep ==
  /\ pc = "sleeping"
  /\ clock' = clock + sleepFor
  /\ sleeps' = sleeps + 1
  /\ pc' = "loop"
  /\ UNCHANGED << mode, files, startTime, pollInterval, jobID, sleepFor,
                  submitResp, lastResp, got, ret, submitsSent, pollsSent,
                  polledJob, lastSentAt, processingSeen, commandVars >>

AnswersOf(m) == IF m = "single" THEN PollAnswers ELSE BatchPollAnswers

Poll == PollReturn(AnswersOf(mode))

Next ==
  \/ SubmitOpenFail
  \/ SubmitSend
  \/ SubmitReturn
  \/ PollTimeout
  \/ PollSend
  \/ Poll
  \/ Sleep

Spec == Init /\ [][Next]_vars

\* the single thread of the call keeps running, and every request returns
\* (the HTTP client gives up after RequestTimeout)
LiveSpec == Spec /\ WF_vars(Next)

\* most polls a loop can send: one per fast interval up to the threshold,
\* then one per slow interval up to the deadline
MaxPolls ==
  PollSlowAfter \div PollInterval + 1
  + (MaxPollingDuration - PollSlowAfter) \div PollIntervalSlow

\* C1: every call of the polling loop terminates, after a bounded number of
\* polls; a call whose polls were all answered "still processing" ends with
\* the Timeout failure, whose message states the 60 s deadline.
C1_PollingTerminates ==
  /\ <>(pc = "done")
  /\ [](pollsSent <= MaxPolls)
  /\ [](pc = "done" /\ pollsSent > 0 /\ processingSeen = pollsSent
          => /\ ret.result.nil
             /\ ret.err = Errorf("job polling timed out after 1m0s"))

\* a stalled batch job ran into the deadline after the most polls possible
C1_Witness ==
  /\ pc = "done" /\ mode = "batch"
  /\ processingSeen = pollsSent /\ pollsSent = MaxPolls
  /\ ret.err = TimeoutError

\* C2: no poll is sent when more than 60 s have elapsed since the job was
\* submitted; a loop that finds the deadline passed returns the Timeout
\* failure without polling; no request follows the Timeout.
C2_NoPollPastDeadline ==
  /\ [](pollsSent > 0 => lastSentAt - startTime <= MaxPollingDuration)
  /\ [][pc = "loop" /\ Elapsed > MaxPollingDuration
          => /\ pc' = "done"
             /\ ret' = Return(NilPtr, TimeoutError)
             /\ pollsSent' = pollsSent]_vars
  /\ [][ret.err = TimeoutError
          => pollsSent' = pollsSent /\ submitsSent' = submitsSent]_vars

\* the last poll went out exactly at the deadline, was answered "still
\* processing", and the loop then gave up
C2_Witness ==
  /\ pc = "done"
  /\ ret.err = TimeoutError
  /\ lastSentAt - startTime = MaxPollingDuration

\* the interval the backoff schedule prescribes for a poll sent at `elapsed`
ScheduledInterval(elapsed) ==
  IF elapsed > PollSlowAfter THEN PollIntervalSlow ELSE PollInterval

\* C3: the sleep after a poll is 500 ms when the poll was sent with the
\* elapsed time not past the 10 s threshold and 1 s when it was sent past
\* it; no other interval is used and the interval never goes back to 500 ms.
C3_BackoffSchedule ==
  /\ [](pc \in {"polling", "sleeping"}
          => pollInterval = ScheduledInterval(lastSentAt - startTime))
  /\ [](pc = "sleeping"
          => /\ sleepFor = ScheduledInterval(lastSentAt - startTime)
             /\ sleepFor \in {PollInterval, PollIntervalSlow})
  /\ [][pc = "sleeping" => clock' = clock + sleepFor]_vars
  /\ [][pollInterval = PollIntervalSlow
          => pollInterval' = PollIntervalSlow]_vars

\* the first poll sent past the threshold is followed by the first slow sleep
C3_Witness ==
  /\ pc = "sleeping"
  /\ lastSentAt - startTime = PollSlowAfter + PollInterval
  /\ sleepFor = PollIntervalSlow

(***************************************************************************)
(* What an answer says, read off the JSON itself.                          *)
(***************************************************************************)
\* the body is a result object that shows data: a non-empty list or a
\* positive total_checked
ShowsResults(b) ==
  /\ b.kind = "object"
  /\ Takes(Member(b.o, "compatible"), "array")
  /\ Takes(Member(b.o, "incompatible"), "array")
  /\ Takes(Member(b.o, "total_checked"), "number")
  /\ Takes(Member(b.o, "mode"), "string")
  /\ \/ Member(b.o, "compatible").kind = "array"
        /\ Member(b.o, "compatible").a # << >>
     \/ Member(b.o, "incompatible").kind = "array"
        /\ Member(b.o, "incompatible").a # << >>
     \/ Member(b.o, "total_checked").kind = "number"
        /\ Member(b.o, "total_checked").n > 0

\* the body is read as a wrapped envelope
IsEnvelope(b) == ~ShowsResults(b) /\ UnmarshalJobResultsResponse(b).ok

\* the status of the envelope; a missing status is the empty one
EnvelopeStatus(b) ==
  IF b.kind = "object" /\ Member(b.o, "status").kind = "string"
    THEN Member(b.o, "status").s
    ELSE ""

\* an answer that says "still processing"
StillProcessing(a) ==
  /\ a.sent
  /\ \/ a.code = StatusAccepted
     \/ /\ a.code = StatusOK
        /\ IsEnvelope(a.body)
        /\ EnvelopeStatus(a.body) \in {"running", "pending"}

\* C4: in single-file polling an answer that says "still processing" makes
\* the loop sleep once for the current interval, with nothing returned, and
\* the sleep leads back to the top of the loop, where the next poll is sent
\* unless the deadline has passed; so a call that returns a result after n
\* such answers has slept n times and polled n+1 times.
C4_ProcessingSleepsAndRetries ==
  /\ [][mode = "single" /\ pc = "polling" /\ StillProcessing(lastResp')
          => /\ pc' = "sleeping"
             /\ sleepFor' = pollInterval
             /\ ret' = ret
             /\ processingSeen' = processingSeen + 1]_vars
  /\ [][mode = "single" /\ pc = "polling" /\ pc' = "sleeping"
          => StillProcessing(lastResp')]_vars
  /\ [][mode = "single" /\ pc = "sleeping"
          => /\ pc' = "loop"
             /\ clock' = clock + sleepFor
             /\ sleeps' = sleeps + 1
             /\ ret' = ret]_vars
  /\ [][mode = "single" /\ pc = "loop" /\ Elapsed <= MaxPollingDuration
          => pc' = "polling" /\ pollsSent' = pollsSent + 1]_vars
  /\ [](mode = "single" /\ pc = "done" /\ ~ret.result.nil
          => /\ pollsSent = processingSeen + 1
             /\ sleeps = processingSeen)

\* three "running" answers, then a success: four polls, three fast sleeps
C4_Witness ==
  /\ mode = "single" /\ pc = "done"
  /\ ret = Return(Ptr(ComparisonResponse(<< ResOK >>, << ResBad >>, 2, "hash")),
              NoErr)
  /\ pollsSent = 4 /\ processingSeen = 3 /\ sleeps = 3
  /\ clock - startTime = 3 * PollInterval

\* an envelope that says "error"
ErrorEnvelope(a) ==
  /\ a.sent /\ a.code = StatusOK
  /\ IsEnvelope(a.body)
  /\ EnvelopeStatus(a.body) = "error"

\* the text of a string member, empty when there is none
TextOf(b, key) ==
  IF Member(b.o, key).kind = "string" THEN Member(b.o, key).s ELSE ""

\* the server's message: the "error" member, else the "message" member,
\* else the fallback
ServerMessage(b) ==
  IF TextOf(b, "error") # "" THEN TextOf(b, "error")
  ELSE IF TextOf(b, "message") # "" THEN TextOf(b, "message")
  ELSE "unknown error"

\* C5: in single-file polling an envelope with status "error" ends the call
\* on that poll, without a sleep and without another poll, and the failure
\* carries the server's message, or the fallback text when there is none.
C5_ErrorEndsLoop ==
  mode = "single" /\ ErrorEnvelope(lastResp)
    => /\ pc = "done"
       /\ ret = Return(NilPtr, Errorf(ServerMessage(lastResp.body)))
       /\ processingSeen = pollsSent - 1
       /\ sleeps = pollsSent - 1

\* a job that failed after two rounds, reported through "message" only
C5_Witness ==
  /\ mode = "single" /\ pc = "done"
  /\ lastResp = Answer(StatusOK, JObject([status |-> JString("error"),
                                          message |-> JString("M1")]))
  /\ ret.err = Errorf("M1")
  /\ pollsSent = 3

\* an envelope that says "success" and carries no result
SuccessWithoutResults(a) ==
  /\ a.sent /\ a.code = StatusOK
  /\ IsEnvelope(a.body)
  /\ EnvelopeStatus(a.body) = "success"
  /\ Member(a.body.o, "results").kind \in {"absent", "null"}

\* C6: in single-file polling a "success" envelope whose results are null or
\* absent makes the call fail; CompareQMD never returns a nil result with a
\* nil error.
C6_SuccessNeedsResults ==
  mode = "single"
    => /\ SuccessWithoutResults(lastResp)
            => /\ pc = "done"
               /\ ret = Return(NilPtr,
                          Errorf("job succeeded but no results returned"))
       /\ pc = "done" => ~(ret.result.nil /\ ~ret.err.isErr)

C6_Witness ==
  /\ mode = "single" /\ pc = "done"
  /\ lastResp = Answer(StatusOK, JObject([status |-> JString("success"),
                                          results |-> JNull]))
  /\ ret.result.nil /\ ret.err.isErr

\* an answer that breaks the protocol: a status code other than 200 and
\* 202, a body that reads as neither shape, an envelope with a status the
\* client does not know
ProtocolViolation(a) ==
  /\ a.sent
  /\ \/ a.code \notin {StatusOK, StatusAccepted}
     \/ /\ a.code = StatusOK
        /\ ~ShowsResults(a.body)
        /\ ~UnmarshalJobResultsResponse(a.body).ok
     \/ /\ a.code = StatusOK
        /\ IsEnvelope(a.body)
        /\ EnvelopeStatus(a.body) \notin {"success", "error", "running",
                                          "pending"}

\* C7: in single-file polling an answer that breaks the protocol ends the
\* call with a failure on that same poll: no sleep, no later poll.
C7_ProtocolErrorsFatal ==
  mode = "single" /\ ProtocolViolation(lastResp)
    => /\ pc = "done"
       /\ ret.result.nil /\ ret.err.isErr
       /\ processingSeen = pollsSent - 1
       /\ sleeps = pollsSent - 1

\* a server error on the third poll
C7_Witness ==
  /\ mode = "single" /\ pc = "done"
  /\ lastResp = Answer(StatusInternalServerError, InvalidBody)
  /\ ret.err = Errorf("server returned status 500")
  /\ pollsSent = 3 /\ sleeps = 2

\* the submit answer carries no job id, or an empty one
EmptyJobID(a) ==
  /\ a.sent /\ a.code = StatusOK
  /\ \/ a.body.kind = "null"
     \/ /\ a.body.kind = "object"
        /\ \/ Member(a.body.o, "jobId").kind \in {"absent", "null"}
           \/ /\ Member(a.body.o, "jobId").kind = "string"
              /\ Member(a.body.o, "jobId").s = ""

\* the submit answer carries a job id
HasJobID(a) ==
  /\ a.sent /\ a.code = StatusOK
  /\ a.body.kind = "object"
  /\ Member(a.body.o, "jobId").kind = "string"
  /\ Member(a.body.o, "jobId").s # ""

\* C8: an empty job id in the submit answer is a failure; whenever the
\* submit fails (a file does not open, the request fails, the status is not
\* 200, the body does not decode, the id is empty) no poll is ever sent, and
\* the submit request is sent at most once.
C8_FailedSubmitNeverPolls ==
  /\ submitsSent <= 1
  /\ (\E i \in DOMAIN files : ~files[i]) => submitsSent = 0 /\ pollsSent = 0
  /\ EmptyJobID(submitResp)
       => /\ pc = "done"
          /\ ret = Return(NilPtr, Errorf("server returned empty job ID"))
  /\ submitResp # NoAnswer /\ ~HasJobID(submitResp)
       => /\ pc = "done"
          /\ ret.result.nil /\ ret.err.isErr
          /\ submitsSent = 1 /\ pollsSent = 0
  /\ pollsSent > 0 => HasJobID(submitResp) /\ polledJob # ""

C8_Witness ==
  /\ mode = "batch" /\ pc = "done"
  /\ submitResp = Answer(StatusOK, JObject([jobId |-> JString("")]))
  /\ submitsSent = 1 /\ pollsSent = 0
  /\ ret.err.isErr

(***************************************************************************)
(* The decoder on its own: one poll of a job, over every combination of    *)
(* members a body can have.                                                *)
(***************************************************************************)
\* an object with the members that are not JAbsent
ObjectOf(members) ==
  JObject([k \in { n \in DOMAIN members : members[n].kind # "absent" }
             |-> members[k]])

DecodeBodies ==
  { ObjectOf([compatible |-> c, incompatible |-> i, total_checked |-> n,
              status |-> st, results |-> r, error |-> e, message |-> m]) :
      c  \in { JAbsent, JArray(<< >>), JArray(<< ResOK >>), JString("x") },
      i  \in { JAbsent, JArray(<< ResBad >>) },
      n  \in { JAbsent, JNumber(0), JNumber(2), JString("2") },
      st \in { JAbsent, JString("success"), JString("error"),
               JString("running"), JString(""), JNumber(1) },
      r  \in { JAbsent, JNull, JObject(FullResult), JString("x") },
      e  \in { JAbsent, JString("E1") },
      m  \in { JAbsent, JString("M1") } }
  \cup { JNull, JString("ok"), InvalidBody }

DecodeAnswers == { Answer(StatusOK, b) : b \in DecodeBodies }

DecodePoll == PollReturn(DecodeAnswers)

DecodeNext ==
  \/ SubmitOpenFail
  \/ SubmitSend
  \/ SubmitReturn
  \/ PollSend
  \/ DecodePoll

DecodeSpec == Init /\ [][DecodeNext]_vars

\* C9: the single-file decoder reads the body as a bare result first: a
\* body that shows results is returned as "success" with that result; only a
\* body that shows none is read as an envelope, whose status and nested
\* result are returned (a failure when the status is "error"); a body that
\* parses as neither shape is a failure.
C9_BareResultFirst ==
  mode = "single" /\ lastResp.sent /\ lastResp.code = StatusOK
    => LET b    == lastResp.body
           bare == UnmarshalComparisonResponse(b)
           env  == UnmarshalJobResultsResponse(b)
       IN  /\ ShowsResults(b)
                => got = Triple(Ptr(bare.v), "success", NoErr)
           /\ ~ShowsResults(b) /\ env.ok /\ EnvelopeStatus(b) # "error"
                => got = Triple(env.v.Results, EnvelopeStatus(b), NoErr)
           /\ ~ShowsResults(b) /\ env.ok /\ EnvelopeStatus(b) = "error"
                => got.results.nil /\ got.status = "error" /\ got.err.isErr
           /\ ~bare.ok /\ ~env.ok
                => got.results.nil /\ got.err.isErr

\* a body with a status and with data is a result, not an envelope
C9_Witness ==
  /\ mode = "single"
  /\ lastResp = Answer(StatusOK,
                  JObject([compatible |-> JArray(<< ResOK >>),
                           status |-> JString("error"),
                           error |-> JString("E1")]))
  /\ got = Triple(Ptr(ComparisonResponse(<< ResOK >>, << >>, 0, "")),
                  "success", NoErr)

(***************************************************************************)
(* The filter engine on its own: filterResponse applied to a response the  *)
(* client handed back.  The server's total_checked is taken as sent, so it *)
(* may disagree with the lists.                                            *)
(***************************************************************************)
SeqsUpTo(S, n) == UNION { [1..k -> S] : k \in 0..n }

DeviceNames == { "rm1", "rmpp" }

\* "3", "3.22.4" and "03.22"
V3 == << "3" >>

V3224 == << "3", ".", "2", "2", ".", "4" >>

V0322 == << "0", "3", ".", "2", "2" >>

ResultVersions == { V322, V321 }

VersionPrefixes == { V3, V322, V3224, V0322 }

CompatibleResults ==
  { ComparisonResult(d, v, TRUE, "", {}) :
      d \in DeviceNames, v \in ResultVersions }

IncompatibleResults ==
  { ComparisonResult(d, v, FALSE, "Hash not found", {}) :
      d \in DeviceNames, v \in ResultVersions }

\* the --device filters: none, one device, or two (check_test.go 178)
DeviceFilters == SeqsUpTo(DeviceNames, 1) \cup { << "rmpp", "rm1" >> }

\* the --version filters: none, one prefix, or two (check_test.go 199)
VersionFilters == SeqsUpTo(VersionPrefixes, 1) \cup { << V322, V321 >> }

\* the totals a server may send along with lists c and i
ServerTotals(c, i) == { Len(c) + Len(i), 0, Len(c) + Len(i) + 1 }

ClientIdle ==
  /\ ClientInit
  /\ mode = "single"
  /\ files = << TRUE >>

FilterInit ==
  /\ ClientIdle
  /\ \E c \in SeqsUpTo(CompatibleResults, MaxResults),
        i \in SeqsUpTo(IncompatibleResults, MaxResults) :
       \E n \in ServerTotals(c, i) :
         resp = ComparisonResponse(c, i, n, "hash")
  /\ devices \in DeviceFilters
  /\ versions \in VersionFilters
  /\ filtered = NilPtr
  /\ refiltered = NilPtr
  /\ VersionIdle /\ FileIdle /\ CheckIdle /\ RestIdle

\* response = filterResponse(response, deviceFilter, versionFilter)
ApplyFilter ==
  /\ filtered.nil
  /\ filtered' = Ptr(filterResponse(resp, devices, versions))
  /\ UNCHANGED << clientVars, restVars, resp, devices, versions, refiltered,
                  versionVars, fileVars, checkVars >>

\* filterResponse applied once more, with the same filters, to its result
ApplyFilterAgain ==
  /\ ~filtered.nil
  /\ refiltered.nil
  /\ refiltered' = Ptr(filterResponse(filtered.v, devices, versions))
  /\ UNCHANGED << clientVars, restVars, resp, devices, versions, filtered,
                  versionVars, fileVars, checkVars >>

FilterNext == ApplyFilter \/ ApplyFilterAgain

FilterSpec == FilterInit /\ [][FilterNext]_vars

\* C10: the response filterResponse returns has total_checked equal to the
\* number of its compatible plus the number of its incompatible results, for
\* every response and every pair of filters, the empty ones included.
C10_TotalRecomputed ==
  ~filtered.nil =>
     filtered.v.TotalChecked
       = Len(filtered.v.Compatible) + Len(filtered.v.Incompatible)

\* the device predicate of the filter: no device asked for, or the result's
\* device is one of those asked for
DevicePredicate(r) ==
  devices = << >> \/ r.Device \in { devices[k] : k \in DOMAIN devices }

\* the version predicate of the filter: no version asked for, or the
\* result's OS version matches one of the prefixes asked for
VersionPredicate(r) ==
  versions = << >>
    \/ \E k \in DOMAIN versions : matchesVersionPrefix(r.OSVersion, versions[k])

Matching(r) == DevicePredicate(r) /\ VersionPredicate(r)

\* C11: filterResponse keeps a result exactly when the device predicate and
\* the version predicate both hold of it; the compatible list it returns is
\* the subsequence of the input's compatible list made of the matching
\* results in their original order, likewise the incompatible list, and no
\* result moves from one list to the other.
C11_KeepsExactlyMatching ==
  ~filtered.nil =>
     /\ filtered.v.Compatible = SelectSeq(resp.Compatible, Matching)
     /\ filtered.v.Incompatible = SelectSeq(resp.Incompatible, Matching)
     /\ \A k \in DOMAIN filtered.v.Compatible :
          filtered.v.Compatible[k].Compatible
     /\ \A k \in DOMAIN filtered.v.Incompatible :
          ~filtered.v.Incompatible[k].Compatible

\* a device filter and a version filter that each reject one of two results
C11_Witness ==
  /\ ~filtered.nil
  /\ devices = << "rmpp" >>
  /\ versions = << V322 >>
  /\ resp.Compatible = << ComparisonResult("rmpp", V321, TRUE, "", {}),
                          ComparisonResult("rmpp", V322, TRUE, "", {}) >>
  /\ resp.Incompatible
       = << ComparisonResult("rm1", V322, FALSE, "Hash not found", {}),
            ComparisonResult("rmpp", V322, FALSE, "Hash not found", {}) >>
  /\ filtered.v.Compatible = << resp.Compatible[2] >>
  /\ filtered.v.Incompatible = << resp.Incompatible[2] >>

\* C13: with no device filter and no version filter, filterResponse returns
\* its input: same compatible list, same incompatible list, same
\* total_checked and same mode.
C13_EmptyFiltersIdentity ==
  (~filtered.nil /\ devices = << >> /\ versions = << >>) =>
     /\ filtered.v.Compatible = resp.Compatible
     /\ filtered.v.Incompatible = resp.Incompatible
     /\ filtered.v.TotalChecked = resp.TotalChecked
     /\ filtered.v.Mode = resp.Mode

\* no filters, a response with results and a mode
C13_Witness ==
  /\ ~filtered.nil
  /\ devices = << >>
  /\ versions = << >>
  /\ Len(resp.Compatible) = 1
  /\ Len(resp.Incompatible) = 1
  /\ resp.TotalChecked = 2
  /\ resp.Mode = "hash"
  /\ filtered.v = resp

\* C14: filtering is idempotent: filterResponse applied with the same
\* filters to its own result returns that result, equal in every field.
C14_Idempotent ==
  ~refiltered.nil => refiltered.v = filtered.v

\* a second pass over a response the first pass took results out of
C14_Witness ==
  /\ ~refiltered.nil
  /\ devices = << "rmpp" >>
  /\ Len(resp.Compatible) = 2
  /\ Len(filtered.v.Compatible) = 1
  /\ refiltered.v = filtered.v

(***************************************************************************)
(* matchesVersionPrefix on its own.  A version and a prefix are drawn as   *)
(* lists of segments and handed to the function joined by dots.  A segment *)
(* is its text together with what it reads as: a number or not.            *)
(***************************************************************************)
Seg(text, isNum, num) == [text |-> text, isNum |-> isNum, num |-> num]

Seg3 == Seg(<< "3" >>, TRUE, 3)

Seg03 == Seg(<< "0", "3" >>, TRUE, 3)

Seg22 == Seg(<< "2", "2" >>, TRUE, 22)

Seg2 == Seg(<< "2" >>, TRUE, 2)

Seg4 == Seg(<< "4" >>, TRUE, 4)

Seg9 == Seg(<< "9" >>, TRUE, 9)

SegBeta == Seg(<< "b" >>, FALSE, 0)

SegEmpty == Seg(<< >>, FALSE, 0)

Segments == { Seg3, Seg03, Seg22, Seg2, SegBeta }

\* most segments of a version or of a prefix drawn from Segments
MaxSegments == 3

\* "3.22.4.2", "3.22", "3.2", "3.22.4.2.9", "3." and "3"
S32242 == << Seg3, Seg22, Seg4, Seg2 >>

S322 == << Seg3, Seg22 >>

S32 == << Seg3, Seg2 >>

S322429 == << Seg3, Seg22, Seg4, Seg2, Seg9 >>

S3Dot == << Seg3, SegEmpty >>

S3 == << Seg3 >>

NamedVersions == { S32242, S322, S32, S322429, S3Dot, S3 }

SegmentLists ==
  (SeqsUpTo(Segments, MaxSegments) \ { << >> }) \cup NamedVersions

RECURSIVE Join(_)
\* the texts of the segments, joined by "."
Join(segs) ==
  IF Len(segs) = 1 THEN segs[1].text
  ELSE segs[1].text \o << "." >> \o Join(Tail(segs))

VersionInit ==
  /\ ClientIdle
  /\ versionSegs \in SegmentLists
  /\ prefixSegs \in SegmentLists
  /\ prefixMatch = NilPtr
  /\ FilterIdle /\ FileIdle /\ CheckIdle /\ RestIdle

\* matchesVersionPrefix(result.OSVersion, v)
MatchPrefix ==
  /\ prefixMatch.nil
  /\ prefixMatch' = Ptr(matchesVersionPrefix(Join(versionSegs), Join(prefixSegs)))
  /\ UNCHANGED << clientVars, restVars, filterVars, versionSegs, prefixSegs, fileVars,
                  checkVars >>

VersionNext == MatchPrefix

VersionSpec == VersionInit /\ [][VersionNext]_vars

\* two segments are the same: as integers when both are numbers, as
\* strings otherwise
SameSegment(a, b) ==
  IF a.isNum /\ b.isNum THEN a.num = b.num ELSE a.text = b.text

\* the segments of p are, position by position, the first segments of v
PositionalPrefix(p, v) ==
  /\ Len(p) <= Len(v)
  /\ \A k \in DOMAIN p : SameSegment(v[k], p[k])

\* C12: matchesVersionPrefix compares segment by segment, not character by
\* character: it is true for every prefix whose dot-separated segments are
\* a positional prefix of the version's segments (numbers equal as
\* integers, other segments equal as strings) and false when the prefix has
\* more segments than the version or some segment differs.  So "3.22"
\* matches "3.22.4.2", "3.2" does not, and "3.22.4.2.9" does not.
C12_SegmentWisePrefix ==
  ~prefixMatch.nil =>
     /\ prefixMatch.v = PositionalPrefix(prefixSegs, versionSegs)
     /\ (versionSegs = S32242 /\ prefixSegs = S322) => prefixMatch.v
     /\ (versionSegs = S32242 /\ prefixSegs = S32) => ~prefixMatch.v
     /\ (versionSegs = S32242 /\ prefixSegs = S322429) => ~prefixMatch.v

\* "3.2" against "3.22.4.2": a prefix by characters, not by segments
C12_Witness ==
  /\ versionSegs = S32242
  /\ prefixSegs = S32
  /\ prefixMatch = Ptr(FALSE)

(***************************************************************************)
(* matchesFileFilter on its own: names and patterns over a few characters, *)
(* and the names and patterns of the README.                               *)
(***************************************************************************)
\* longest name and longest pattern drawn from their alphabets
MaxNameLen == 3

NameChars == { "a", "b", "/" }

PatternChars == { "a", "*", "?", "/" }

\* "base/toolbar_ui.qmd" and "a.qmd"
ToolbarFile ==
  << "b", "a", "s", "e", "/", "t", "o", "o", "l", "b", "a", "r", "_", "u",
     "i", ".", "q", "m", "d" >>

AQmd == << "a", ".", "q", "m", "d" >>

\* "toolbar", "*.qmd", "base/*.qmd", "settings", "[a-c]*", "[^b]?qmd",
\* "[a", "\\*" and "a\\"
PToolbar == << "t", "o", "o", "l", "b", "a", "r" >>

PAllQmd == << "*", ".", "q", "m", "d" >>

PBaseQmd == << "b", "a", "s", "e", "/", "*", ".", "q", "m", "d" >>

PSettings == << "s", "e", "t", "t", "i", "n", "g", "s" >>

PClass == << "[", "a", "-", "c", "]", "*" >>

PNegClass == << "[", "^", "b", "]", "?", "q", "m", "d" >>

POpenClass == << "[", "a" >>

PQuotedStar == << "\\", "*" >>

PDanglingQuote == << "a", "\\" >>

FileNames == SeqsUpTo(NameChars, MaxNameLen) \cup { ToolbarFile, AQmd }

NamedPatterns ==
  { PToolbar, PAllQmd, PBaseQmd, PSettings, PClass, PNegClass, POpenClass,
    PQuotedStar, PDanglingQuote }

Patterns == SeqsUpTo(PatternChars, MaxNameLen - 1) \cup NamedPatterns

\* the --file filters: none, one pattern, or two (README 107-120)
FileFilters ==
  { << >> } \cup { << q >> : q \in Patterns }
    \cup { << PToolbar, PSettings >>, << PSettings, PToolbar >>,
           << PBaseQmd, PAllQmd >> }

FileFilterInit ==
  /\ ClientIdle
  /\ fileName \in FileNames
  /\ fileFilter \in FileFilters
  /\ fileMatch = NilPtr
  /\ FilterIdle /\ VersionIdle /\ CheckIdle /\ RestIdle

\* matchesFileFilter(filename, fileFilter)
MatchFile ==
  /\ fileMatch.nil
  /\ fileMatch' = Ptr(matchesFileFilter(fileName, fileFilter))
  /\ UNCHANGED << clientVars, restVars, filterVars, versionVars, fileName, fileFilter,
                  checkVars >>

FileFilterNext == MatchFile

FileFilterSpec == FileFilterInit /\ [][FileFilterNext]_vars

\* the pattern occurs in the name as a run of consecutive characters
Occurs(pattern, name) ==
  \E before, after \in 0..Len(name) :
    /\ before + Len(pattern) + after = Len(name)
    /\ \A k \in DOMAIN pattern : name[before + k] = pattern[k]

\* C19: matchesFileFilter(name, P) is true when P is empty; otherwise it
\* is true exactly when some pattern of P matches the whole name as a
\* glob or occurs in the name as a contiguous substring.  So "toolbar"
\* matches "base/toolbar_ui.qmd", which it does not match as a glob.
C19_GlobOrSubstring ==
  ~fileMatch.nil =>
     /\ fileFilter = << >> => fileMatch.v
     /\ fileFilter # << >> =>
          fileMatch.v = (\E k \in DOMAIN fileFilter :
                           \/ Match(fileFilter[k], fileName)
                           \/ Occurs(fileFilter[k], fileName))
     /\ (fileName = ToolbarFile /\ fileFilter = << PToolbar >>) =>
          fileMatch.v /\ ~Match(PToolbar, ToolbarFile)

\* "toolbar" against "base/toolbar_ui.qmd"
C19_Witness ==
  /\ fileName = ToolbarFile
  /\ fileFilter = << PToolbar >>
  /\ fileMatch = Ptr(TRUE)

(***************************************************************************)
(* runCheck from the point where the client handed back its answer         *)
(* (commands/check.go 160-232): the single-file branch, and the batch      *)
(* branch with its loop over the files of the batch.  Go ranges over a map *)
(* in an order of its own choosing, so the loop takes the files in any     *)
(* order.  Filenames are sequences of characters.                          *)
(***************************************************************************)
NoHashtablesWarning ==
  "Warning: Server has no hashtables to compare against this QMD file"

NoMatchWarning == "Warning: No devices matched your filter criteria"

\* what the run writes: a warning line, the header of a file, the matrix
\* display.RenderComparisonResults draws of a response
Warning(text) == [kind |-> "warning", text |-> text]

Header(filename) == [kind |-> "header", file |-> filename]

Rendered(response) == [kind |-> "results", response |-> response]

\* a warning that never looks at the unfiltered total
ZeroTotalWarningFilterOnly(originalTotalChecked) == Warning(NoMatchWarning)

\* lines 164-168 and 213-217
ZeroTotalWarning(originalTotalChecked) ==
  IF originalTotalChecked = 0
    THEN Warning(NoHashtablesWarning)
    ELSE Warning(NoMatchWarning)

\* the keys of the dependency_results of the results of a response
DependencyKeys(response) ==
  UNION { response.Compatible[k].DependencyResults :
            k \in DOMAIN response.Compatible }
    \cup UNION { response.Incompatible[k].DependencyResults :
                   k \in DOMAIN response.Incompatible }

\* identifyRootFiles without the test depFile != filename
identifyRootFilesNoSelfGuard(batchResponse) ==
  DOMAIN batchResponse.files
    \ UNION { DependencyKeys(batchResponse.files[f]) :
                f \in DOMAIN batchResponse.files }

identifyRootFiles(batchResponse) ==
  LET filenames       == DOMAIN batchResponse.files
      dependencyFiles ==
        UNION { DependencyKeys(batchResponse.files[filename]) \ { filename } :
                  filename \in filenames }
  IN  filenames \ dependencyFiles

\* the loop body skips without a look at the root set
SkippedIgnoringRoots(filename, roots, incompatible) ==
  \/ ~matchesFileFilter(filename, fileFilter)
  \/ failedOnly /\ Len(incompatible) = 0

\* the three `continue`s of lines 193-206; `incompatible` is the
\* incompatible list of the filtered response
Skipped(filename, roots, incompatible) ==
  \/ filename \notin roots
  \/ ~matchesFileFilter(filename, fileFilter)
  \/ failedOnly /\ Len(incompatible) = 0

\* lines 160-178: the single-file branch once CompareQMD returned
CheckSingle ==
  /\ rc = "single"
  /\ LET originalTotalChecked == resp.TotalChecked
         response == filterResponse(resp, devices, versions)
     IN  /\ filtered' = Ptr(response)
         /\ IF response.TotalChecked = 0
              THEN /\ output' = Append(output,
                                  ZeroTotalWarning(originalTotalChecked))
                   /\ exitCode' = Ptr(0)
              ELSE /\ output' = Append(output, Rendered(response))
                   /\ exitCode' = Ptr(IF Len(response.Incompatible) > 0
                                        THEN 1 ELSE 0)
  /\ rc' = "exit"
  /\ UNCHANGED << clientVars, restVars, resp, devices, versions, refiltered,
                  versionVars, fileVars, batch, rootFiles, failedOnly,
                  pending, hasIncompatible >>

\* lines 189-192: the root set, and the loop about to start
StartBatch ==
  /\ rc = "batch"
  /\ rootFiles' = Ptr(identifyRootFiles(batch))
  /\ hasIncompatible' = FALSE
  /\ pending' = DOMAIN batch.files
  /\ rc' = "range"
  /\ UNCHANGED << clientVars, restVars, filterVars, versionVars, fileVars, batch,
                  failedOnly, output, exitCode >>

\* lines 192-226: one turn of the loop
RangeStep(filename) ==
  /\ rc = "range"
  /\ filename \in pending
  /\ LET response == batch.files[filename]
         originalTotalChecked == response.TotalChecked
         filteredResponse == filterResponse(response, devices, versions)
         skipped == Skipped(filename, rootFiles.v,
                            filteredResponse.Incompatible)
         header == IF Len(filename) # 0 THEN << Header(filename) >>
                                       ELSE << >>
     IN  IF skipped
           THEN UNCHANGED << output, hasIncompatible >>
         ELSE IF filteredResponse.TotalChecked = 0
           THEN /\ output' = output \o header
                               \o << ZeroTotalWarning(originalTotalChecked) >>
                /\ UNCHANGED hasIncompatible
         ELSE /\ output' = output \o header
                             \o << Rendered(filteredResponse) >>
              /\ hasIncompatible' =
                   (hasIncompatible
                      \/ Len(filteredResponse.Incompatible) > 0)
  /\ pending' = pending \ { filename }
  /\ UNCHANGED << clientVars, restVars, filterVars, versionVars, fileVars, batch,
                  rootFiles, failedOnly, rc, exitCode >>

\* lines 228-232: the loop is over
EndBatch ==
  /\ rc = "range"
  /\ pending = {}
  /\ exitCode' = Ptr(IF hasIncompatible THEN 1 ELSE 0)
  /\ rc' = "exit"
  /\ UNCHANGED << clientVars, restVars, filterVars, versionVars, fileVars, batch,
                  rootFiles, failedOnly, pending, output, hasIncompatible >>

\* "<c>.qmd"
QmdName(c) == << c, ".", "q", "m", "d" >>

FileLetters == << "a", "b", "c", "d", "e" >>

\* the relative paths of the files of a batch
BatchNames == { QmdName(FileLetters[k]) : k \in 1..NumBatchFiles }

\* the results of the responses of a run; each carries the dependency keys
\* `deps` (check_test.go 236-240)
OkRmpp(deps) == ComparisonResult("rmpp", V322, TRUE, "", deps)

BadRm1(deps) == ComparisonResult("rm1", V322, FALSE, "Hash not found", deps)

BadRmpp(deps) == ComparisonResult("rmpp", V322, FALSE, "Hash not found", deps)

\* the responses of a run: no hashtables on the server, all compatible,
\* one device incompatible, mixed, and a body with results that leaves
\* out total_checked
CheckResponses(deps) ==
  { ComparisonResponse(<< >>, << >>, 0, "hash"),
    ComparisonResponse(<< OkRmpp(deps) >>, << >>, 1, "hash"),
    ComparisonResponse(<< >>, << BadRm1(deps) >>, 1, "hash"),
    ComparisonResponse(<< >>, << BadRmpp(deps) >>, 1, "hash"),
    ComparisonResponse(<< OkRmpp(deps) >>, << BadRm1(deps) >>, 2, "hash"),
    ComparisonResponse(<< >>, << BadRm1(deps) >>, 0, "hash") }

\* a file of a batch depends on no file or on one file of the batch
BatchResponses ==
  UNION { CheckResponses(deps) :
            deps \in { {} } \cup { { g } : g \in BatchNames } }

\* "a*"
PAStar == << "a", "*" >>

CheckInit ==
  /\ ClientInit
  /\ files = [k \in DOMAIN files |-> TRUE]
  /\ rc = mode
  /\ devices \in { << >>, << "rmpp" >> }
  /\ versions = << >>
  /\ filtered = NilPtr
  /\ refiltered = NilPtr
  /\ VersionIdle /\ RestIdle
  /\ fileName = << >>
  /\ fileMatch = NilPtr
  /\ IF mode = "single"
       THEN /\ resp \in CheckResponses({})
            /\ batch = BatchMap(TRUE, << >>)
            /\ fileFilter = << >>
            /\ failedOnly = FALSE
       ELSE /\ resp = ZeroComparisonResponse
            /\ batch \in { BatchMap(FALSE, m) :
                              m \in [BatchNames -> BatchResponses] }
            /\ fileFilter \in { << >>, << PAStar >> }
            /\ failedOnly \in BOOLEAN
  /\ rootFiles = NilPtr
  /\ pending = {}
  /\ output = << >>
  /\ hasIncompatible = FALSE
  /\ exitCode = NilPtr

CheckNext ==
  \/ CheckSingle
  \/ StartBatch
  \/ \E filename \in pending : RangeStep(filename)
  \/ EndBatch

CheckSpec == CheckInit /\ [][CheckNext]_vars

(***************************************************************************)
(* identifyRootFiles on its own: batches whose files name each other,      *)
(* themselves and files outside the batch as dependencies.                 *)
(***************************************************************************)
\* number of files of a batch handed to identifyRootFiles
NumRootFiles == 3

RootNames == { QmdName(FileLetters[k]) : k \in 1..NumRootFiles }

\* "z.qmd", a dependency that is not a file of the batch
OutsideFile == QmdName("z")

\* a response whose compatible result names up to two dependencies, or
\* whose incompatible result names one
RootResponses ==
  { ComparisonResponse(<< >>, << >>, 0, "hash") }
    \cup { ComparisonResponse(<< OkRmpp(deps) >>, << >>, 1, "hash") :
             deps \in { d \in SUBSET (RootNames \cup { OutsideFile }) :
                          Cardinality(d) <= 2 } }
    \cup { ComparisonResponse(<< >>, << BadRm1({ g }) >>, 1, "hash") :
             g \in RootNames \cup { OutsideFile } }

RootsInit ==
  /\ ClientInit
  /\ mode = "batch"
  /\ files = [k \in DOMAIN files |-> TRUE]
  /\ FilterIdle /\ VersionIdle /\ FileIdle /\ RestIdle
  /\ batch \in { BatchMap(FALSE, m) : m \in [RootNames -> RootResponses] }
  /\ rootFiles = NilPtr
  /\ failedOnly = FALSE
  /\ rc = "batch"
  /\ pending = {}
  /\ output = << >>
  /\ hasIncompatible = FALSE
  /\ exitCode = NilPtr

RootsNext == StartBatch

RootsSpec == RootsInit /\ [][RootsNext]_vars

\* file g of the batch has a result, compatible or not, that names f as a
\* dependency
NamesAsDependency(g, f) ==
  \E r \in { batch.files[g].Compatible[k] :
               k \in DOMAIN batch.files[g].Compatible }
           \cup { batch.files[g].Incompatible[k] :
                    k \in DOMAIN batch.files[g].Incompatible } :
    f \in r.DependencyResults

IsDependency(f) ==
  \E g \in DOMAIN batch.files : g # f /\ NamesAsDependency(g, f)

FileA == QmdName("a")

FileB == QmdName("b")

FileC == QmdName("c")

\* C15: identifyRootFiles returns exactly the filenames of the batch that
\* no result of a different file of the batch names as a dependency: a
\* file naming itself stays a root, a dependency that is not a file of the
\* batch has no effect, the batch {A: deps {B}, B, C} has the roots
\* {A, C}, and the cycle {A: deps {B}, B: deps {A}} has none.
C15_RootsAreUnnamedFiles ==
  ~rootFiles.nil =>
     /\ rootFiles.v = { f \in DOMAIN batch.files : ~IsDependency(f) }
     /\ \A f \in DOMAIN batch.files :
          (\A g \in DOMAIN batch.files : g # f =>
              DependencyKeys(batch.files[g]) \subseteq { g, OutsideFile })
            => f \in rootFiles.v
     /\ (/\ DOMAIN batch.files = { FileA, FileB, FileC }
         /\ DependencyKeys(batch.files[FileA]) = { FileB }
         /\ DependencyKeys(batch.files[FileB]) = {}
         /\ DependencyKeys(batch.files[FileC]) = {})
          => rootFiles.v = { FileA, FileC }
     /\ (/\ DependencyKeys(batch.files[FileA]) = { FileB }
         /\ DependencyKeys(batch.files[FileB]) = { FileA }
         /\ \A g \in DOMAIN batch.files \ { FileA, FileB } :
              DependencyKeys(batch.files[g]) = {})
          => rootFiles.v = DOMAIN batch.files \ { FileA, FileB }

\* a file that names itself and a file outside the batch, next to a
\* dependency: A names A, z and B
C15_Witness ==
  /\ ~rootFiles.nil
  /\ DOMAIN batch.files = { FileA, FileB, FileC }
  /\ DependencyKeys(batch.files[FileA]) = { FileA, FileB }
  /\ DependencyKeys(batch.files[FileB]) = {}
  /\ DependencyKeys(batch.files[FileC]) = { OutsideFile }
  /\ rootFiles.v = { FileA, FileC }

(***************************************************************************)
(* Claims about a run of the check command.                                *)
(***************************************************************************)
\* the response of file f of the batch after device and version filtering
FilteredOf(f) == filterResponse(batch.files[f], devices, versions)

\* the section of file f has been written
Emitted(f) == \E k \in DOMAIN output : output[k] = Header(f)

\* what follows the header of file f, if anything
BodyOf(f) ==
  IF \E k \in DOMAIN output : output[k] = Header(f) /\ k < Len(output)
    THEN output[(CHOOSE k \in DOMAIN output : output[k] = Header(f)) + 1]
    ELSE [kind |-> "none"]

\* file f of the batch gets past the three skips of the loop
Shown(f) ==
  /\ f \in rootFiles.v
  /\ matchesFileFilter(f, fileFilter)
  /\ ~failedOnly \/ Len(FilteredOf(f).Incompatible) > 0

BatchRunOver == mode = "batch" /\ rc = "exit"

SingleRunOver == mode = "single" /\ rc = "exit"

\* C16: in a batch run the outcome of a dependency still counts toward
\* pass or fail: when a file that is kept out of the display as a
\* dependency has an incompatible result left in its own response, the run
\* ends as failed, and that file has no section of its own.
C16_DependencyFailureFailsRun ==
  BatchRunOver =>
    \A f \in DOMAIN batch.files :
      (f \notin rootFiles.v /\ Len(FilteredOf(f).Incompatible) > 0)
        => exitCode = Ptr(1) /\ ~Emitted(f)

\* C17: a run ends with exit code 1 when an incompatibility is found and
\* with 0 otherwise: a single-file run fails exactly when the incompatible
\* list of the filtered response is not empty, a batch run exactly when
\* some file that is shown is left with a non-empty filtered incompatible
\* list.
C17_ExitCodeTellsIncompatibility ==
  /\ SingleRunOver =>
       (exitCode = Ptr(1)) = (Len(filtered.v.Incompatible) > 0)
  /\ BatchRunOver =>
       (exitCode = Ptr(1))
         = (\E f \in DOMAIN batch.files :
              Shown(f) /\ Len(FilteredOf(f).Incompatible) > 0)
  /\ rc = "exit" => exitCode \in { Ptr(0), Ptr(1) }

\* C18: in a batch run the section of a file is written exactly when the
\* file is a root, its name passes the file filter, and either
\* --failed-only is off or its incompatible list is non-empty after device
\* and version filtering; a dependency is never written, whatever the
\* filters.
C18_SectionsOfRootsOnly ==
  (mode = "batch" /\ rc \in { "range", "exit" }) =>
    /\ \A f \in DOMAIN batch.files \ pending :
         Emitted(f) = (/\ f \in rootFiles.v
                       /\ matchesFileFilter(f, fileFilter)
                       /\ (~failedOnly
                             \/ Len(FilteredOf(f).Incompatible) > 0))
    /\ \A f \in pending : ~Emitted(f)
    /\ \A f \in DOMAIN batch.files : IsDependency(f) => ~Emitted(f)
    /\ \A k \in DOMAIN output :
         output[k].kind = "header" => output[k].file \in DOMAIN batch.files

\* b.qmd, a dependency of a.qmd with a failure of its own, is passed over
\* while a.qmd is shown, under --failed-only
C18_Witness ==
  /\ BatchRunOver
  /\ failedOnly
  /\ fileFilter = << PAStar >>
  /\ DependencyKeys(batch.files[FileA]) = { FileB }
  /\ Len(FilteredOf(FileA).Incompatible) > 0
  /\ Len(FilteredOf(FileB).Incompatible) > 0
  /\ rootFiles.v = { FileA }
  /\ Emitted(FileA)
  /\ ~Emitted(FileB)

\* the advisory the unfiltered total calls for
AdvisoryFor(originalTotal) ==
  IF originalTotal = 0 THEN Warning(NoHashtablesWarning)
  ELSE Warning(NoMatchWarning)

\* C20: a response that filtering leaves with total_checked zero is no
\* error: a warning, nothing rendered, exit code 0.  The warning is the
\* "no hashtables" one exactly when the unfiltered total was zero and the
\* "no devices matched" one exactly when it was positive.  In a batch run
\* such a file keeps no other file from being processed and shown.
C20_ZeroTotalIsWarning ==
  /\ (SingleRunOver /\ filtered.v.TotalChecked = 0) =>
       /\ exitCode = Ptr(0)
       /\ output = << AdvisoryFor(resp.TotalChecked) >>
       /\ (output[1].text = NoHashtablesWarning) = (resp.TotalChecked = 0)
       /\ (output[1].text = NoMatchWarning) = (resp.TotalChecked > 0)
  /\ (mode = "batch" /\ rc \in { "range", "exit" }) =>
       \A f \in DOMAIN batch.files \ pending :
         (Shown(f) /\ FilteredOf(f).TotalChecked = 0) =>
           /\ BodyOf(f) = AdvisoryFor(batch.files[f].TotalChecked)
           /\ (BodyOf(f).text = NoHashtablesWarning)
                = (batch.files[f].TotalChecked = 0)
           /\ (BodyOf(f).text = NoMatchWarning)
                = (batch.files[f].TotalChecked > 0)
  /\ BatchRunOver =>
       /\ pending = {}
       /\ \A f \in DOMAIN batch.files : Shown(f) => Emitted(f)
       /\ (\A f \in DOMAIN batch.files :
             Shown(f) => FilteredOf(f).TotalChecked = 0)
            => exitCode = Ptr(0)
       /\ \A f \in DOMAIN batch.files :
            (Shown(f) /\ FilteredOf(f).TotalChecked # 0)
              => BodyOf(f) = Rendered(FilteredOf(f))

\* a.qmd is filtered down to nothing and warned about, b.qmd is rendered
\* all the same, and its failure decides the exit code
C20_Witness ==
  /\ BatchRunOver
  /\ devices = << "rmpp" >>
  /\ rootFiles.v = { FileA, FileB }
  /\ batch.files[FileA] = ComparisonResponse(<< >>, << BadRm1({}) >>, 1, "hash")
  /\ batch.files[FileB] = ComparisonResponse(<< >>, << BadRmpp({}) >>, 1, "hash")
  /\ BodyOf(FileA) = Warning(NoMatchWarning)
  /\ BodyOf(FileB) = Rendered(FilteredOf(FileB))
  /\ exitCode = Ptr(1)

(***************************************************************************)
(* Claims about batch polling and about the deadline.                      *)
(***************************************************************************)
\* an HTTP-200 answer whose body is a wrapped envelope with status st
EnvelopeWith(a, st) ==
  /\ a.sent /\ a.code = StatusOK
  /\ IsEnvelope(a.body)
  /\ EnvelopeStatus(a.body) = st

\* C26: batch polling treats the job statuses as single-file polling does:
\* an HTTP-200 envelope with status pending or running leads to a sleep and
\* a retry, one with status error ends the loop with a failure that carries
\* the server's message or the fallback; such an envelope is never reported
\* as a decoding failure and never returned as a batch result.
C26_BatchEnvelopesHandled ==
  mode = "batch" =>
    /\ (EnvelopeWith(lastResp, "running") \/ EnvelopeWith(lastResp, "pending"))
         => /\ ~got.err.isErr
            /\ ret.result.nil
            /\ pc \in { "sleeping", "loop", "done" }
            /\ pc = "done" => ret.err = TimeoutError
    /\ EnvelopeWith(lastResp, "error")
         => /\ pc = "done"
            /\ ret = Return(NilPtr, Errorf(ServerMessage(lastResp.body)))

\* C27: in batch polling a successful poll whose payload is null or absent
\* is a protocol error: CompareQMDFiles never returns, with a nil error, a
\* batch response that is nil or that wraps a nil map.
C27_BatchNeverNilMap ==
  (mode = "batch" /\ pc = "done" /\ ~ret.err.isErr)
    => ~ret.result.nil /\ ~ret.result.v.nilMap

\* what the decoder of the mode makes of an answer
Outcome(a) ==
  IF mode = "single" THEN getJobResults(a) ELSE getBatchJobResults(a)

\* C30: the deadline is looked at only at the top of an iteration, before
\* the poll is sent: the outcome of a poll that was sent in time is acted
\* on, success or failure, even when more than 60 s have elapsed by the
\* time its answer is handled, and the Timeout failure is produced only at
\* the top of an iteration, never in place of an answer.
C30_DeadlineOnlyAtLoopTop ==
  /\ [][pc = "polling" =>
          LET t == Outcome(lastResp')
          IN  /\ lastSentAt - startTime <= MaxPollingDuration
              /\ t.err.isErr => pc' = "done" /\ ret' = Return(NilPtr, t.err)
              /\ (~t.err.isErr /\ t.status = "success" /\ ~t.results.nil)
                   => pc' = "done" /\ ret' = Return(t.results, NoErr)
              /\ ret'.err # TimeoutError]_vars
  /\ [][(ret'.err = TimeoutError /\ ret.err # TimeoutError)
          => pc = "loop" /\ Elapsed > MaxPollingDuration]_vars

\* a poll sent on the deadline whose result arrives after it
C30_Witness ==
  /\ pc = "done"
  /\ ~ret.result.nil
  /\ ~ret.err.isErr
  /\ lastSentAt - startTime = MaxPollingDuration
  /\ clock - startTime > MaxPollingDuration

(***************************************************************************)
(* The compatibility matrix of the table display (display/table.go).       *)
(***************************************************************************)

matrixCell(compatible, hasData, errorDetail) ==
  [compatible |-> compatible, hasData |-> hasData,
   errorDetail |-> errorDetail]

\* matrix[version][device] = cell, the row made first when it is missing
SetCell(m, version, device, cell) ==
  LET row == IF version \in DOMAIN m THEN m[version] ELSE << >>
  IN  [v \in DOMAIN m \cup { version } |->
         IF v = version
           THEN [dv \in DOMAIN row \cup { device } |->
                   IF dv = device THEN cell ELSE row[dv]]
           ELSE m[v]]

\* the cell one loop writes for a result: the first loop ignores the
\* result's detail, the second copies it
CellFor(result, compatible) ==
  IF compatible
    THEN matrixCell(TRUE, TRUE, "")
    ELSE matrixCell(FALSE, TRUE, result.ErrorDetail)

RECURSIVE AddResults(_, _, _, _)

\* one of the two loops of buildCompatibilityMatrix, from result i on
AddResults(m, results, i, compatible) ==
  IF i > Len(results) THEN m
  ELSE AddResults(SetCell(m, results[i].OSVersion, results[i].Device,
                          CellFor(results[i], compatible)),
                  results, i + 1, compatible)

\* the loops the other way round: the compatible list written last
buildCompatibilityMatrixCompatibleLast(response) ==
  AddResults(AddResults(<< >>, response.Incompatible, 1, FALSE),
             response.Compatible, 1, TRUE)

buildCompatibilityMatrix(response) ==
  AddResults(AddResults(<< >>, response.Compatible, 1, TRUE),
             response.Incompatible, 1, FALSE)

\* results as a server may list them: a compatible result may carry a
\* detail, two incompatible results of one cell may differ in theirs
MatrixCompatible ==
  CompatibleResults \cup { ComparisonResult("rm1", V322, TRUE, "stale", {}) }

MatrixIncompatible ==
  IncompatibleResults \cup
    { ComparisonResult(d, v, FALSE, "Cannot resolve hash 123", {}) :
        d \in DeviceNames, v \in ResultVersions }

MatrixInit ==
  /\ ClientIdle
  /\ \E c \in SeqsUpTo(MatrixCompatible, MaxResults),
        i \in SeqsUpTo(MatrixIncompatible, MaxResults) :
       resp = ComparisonResponse(c, i, Len(c) + Len(i), "hash")
  /\ devices = << >>
  /\ versions = << >>
  /\ filtered = NilPtr
  /\ refiltered = NilPtr
  /\ VersionIdle /\ FileIdle /\ CheckIdle /\ RestIdle

\* table.go 52
BuildMatrix ==
  /\ matrix = NilPtr
  /\ matrix' = Ptr(buildCompatibilityMatrix(resp))
  /\ UNCHANGED << clientVars, filterVars, versionVars, fileVars, checkVars,
                  deviceCols, versionRows, runVars >>

MatrixSpec == MatrixInit /\ [][BuildMatrix]_vars

\* result number i of a list is about cell (v, dv)
Hits(list, i, v, dv) == list[i].OSVersion = v /\ list[i].Device = dv

ListHas(list, v, dv) == \E i \in DOMAIN list : Hits(list, i, v, dv)

\* the last result of a list about cell (v, dv)
LastOf(list, v, dv) ==
  list[CHOOSE i \in DOMAIN list :
         /\ Hits(list, i, v, dv)
         /\ \A j \in DOMAIN list : Hits(list, j, v, dv) => j <= i]

HasCell(m, v, dv) == v \in DOMAIN m /\ dv \in DOMAIN m[v]

\* C29: the matrix has a cell (version, device) exactly when some result of
\* the response has that version and device; every cell has hasData; a cell
\* whose pair is in the compatible list only is compatible with an empty
\* detail; a cell whose pair is in the incompatible list is incompatible
\* with the detail of that result (of the last one, if there are several),
\* also when the pair is in the compatible list as well.
C29_MatrixCells ==
  ~matrix.nil =>
    LET m == matrix.v
        c == resp.Compatible
        i == resp.Incompatible
    IN  /\ \A v \in DOMAIN m : \A dv \in DOMAIN m[v] :
             ListHas(c, v, dv) \/ ListHas(i, v, dv)
        /\ \A v \in ResultVersions, dv \in DeviceNames :
             /\ (ListHas(c, v, dv) \/ ListHas(i, v, dv)) => HasCell(m, v, dv)
             /\ HasCell(m, v, dv) => m[v][dv].hasData
             /\ ListHas(i, v, dv) =>
                  m[v][dv] = matrixCell(FALSE, TRUE,
                                        LastOf(i, v, dv).ErrorDetail)
             /\ (ListHas(c, v, dv) /\ ~ListHas(i, v, dv)) =>
                  m[v][dv] = matrixCell(TRUE, TRUE, "")

\* rm1 3.22 is in both lists, compatible with a detail of its own: the cell
\* is the incompatible one; rmpp 3.21 has no result and no cell
C29_Witness ==
  /\ ~matrix.nil
  /\ ListHas(resp.Compatible, V322, "rm1")
  /\ resp.Compatible[1].ErrorDetail = "stale"
  /\ ListHas(resp.Incompatible, V322, "rm1")
  /\ matrix.v[V322]["rm1"] = matrixCell(FALSE, TRUE, "Cannot resolve hash 123")
  /\ ~HasCell(matrix.v, V321, "rmpp")

(***************************************************************************)
(* The order of the table's columns and rows (table.go 201-276).           *)
(***************************************************************************)

RECURSIVE StringLess(_, _)

\* a < b on Go strings: byte by byte, a proper prefix comes first
StringLess(a, b) ==
  IF b = << >> THEN FALSE
  ELSE IF a = << >> THEN TRUE
  ELSE IF Head(a) # Head(b) THEN Code(Head(a)) < Code(Head(b))
  ELSE StringLess(Tail(a), Tail(b))

RM1 == << "r", "m", "1" >>

RM2 == << "r", "m", "2" >>

RMPP == << "r", "m", "p", "p" >>

RMPPM == << "r", "m", "p", "p", "m" >>

\* the map literal of table.go 217-222
deviceOrder == (RM1 :> 0) @@ (RM2 :> 1) @@ (RMPP :> 2) @@ (RMPPM :> 3)

\* a less function that is the order of the strings alone
deviceLessLexical(di, dj) == StringLess(di, dj)

\* the less function of table.go 224-234
deviceLess(di, dj) ==
  LET okI == di \in DOMAIN deviceOrder
      okJ == dj \in DOMAIN deviceOrder
  IN  IF okI /\ okJ THEN deviceOrder[di] < deviceOrder[dj]
      ELSE IF okI THEN TRUE
      ELSE IF okJ THEN FALSE
      ELSE StringLess(di, dj)

RECURSIVE LeadingDigits(_)

LeadingDigits(s) ==
  IF s = << >> \/ Head(s) \notin Digits THEN << >>
  ELSE << Head(s) >> \o LeadingDigits(Tail(s))

\* fmt.Sscanf(seg, "%d", &n) with n zero before the call and the error
\* dropped: an optional sign and the digits that follow it are read; with no
\* digit there the scan fails and n stays zero
Sscanf(seg) ==
  LET signed == seg # << >> /\ Head(seg) \in { "+", "-" }
      ds     == LeadingDigits(IF signed THEN Tail(seg) ELSE seg)
  IN  IF ds = << >> THEN 0
      ELSE IF signed /\ Head(seg) = "-" THEN 0 - DigitsValue(ds, 0)
      ELSE DigitsValue(ds, 0)

RECURSIVE CompareFrom(_, _, _)

\* the loop of compareVersions from segment i on
CompareFrom(parts1, parts2, i) ==
  IF i > Len(parts1) /\ i > Len(parts2) THEN 0
  ELSE LET n1 == IF i <= Len(parts1) THEN Sscanf(parts1[i]) ELSE 0
           n2 == IF i <= Len(parts2) THEN Sscanf(parts2[i]) ELSE 0
       IN  IF n1 # n2 THEN n1 - n2
           ELSE CompareFrom(parts1, parts2, i + 1)

compareVersions(v1, v2) == CompareFrom(Split(v1), Split(v2), 1)

\* a less function that puts the older version first
versionLessAscending(vi, vj) == compareVersions(vi, vj) < 0

\* the less function of table.go 245-247
versionLess(vi, vj) == compareVersions(vi, vj) > 0

\* the less function handed to sort.Slice
Less(by, x, y) ==
  IF by = "device" THEN deviceLess(x, y) ELSE versionLess(x, y)

Swap(s, i, j) ==
  [k \in DOMAIN s |-> IF k = i THEN s[j] ELSE IF k = j THEN s[i] ELSE s[k]]

RECURSIVE Sink(_, _, _)

\* the inner loop of the insertion sort: element j moves down while it is
\* less than the one before it
Sink(s, j, by) ==
  IF j > 1 /\ Less(by, s[j], s[j - 1])
    THEN Sink(Swap(s, j, j - 1), j - 1, by)
    ELSE s

RECURSIVE InsertFrom(_, _, _)

InsertFrom(s, i, by) ==
  IF i > Len(s) THEN s ELSE InsertFrom(Sink(s, i, by), i + 1, by)

\* sort.Slice on a slice of fewer than twelve elements: an insertion sort
sortSlice(s, by) == InsertFrom(s, 2, by)

\* the keys of deviceSet (table.go 202-207)
DeviceSet(m) == UNION { DOMAIN m[v] : v \in DOMAIN m }

\* ranged is the order in which the range over deviceSet yields its keys
getDeviceOrder(m, ranged) == sortSlice(ranged, "device")

\* ranged is the order in which the range over the matrix yields its keys
getSortedVersions(m, ranged) == sortSlice(ranged, "version")

RECURSIVE RangeOrders(_)

\* the orders in which a range over a map with key set S may yield them
RangeOrders(S) ==
  IF S = {} THEN { << >> }
  ELSE UNION { { << x >> \o rest : rest \in RangeOrders(S \ { x }) } :
               x \in S }

Apple == << "a", "p", "p", "l", "e" >>

Unknown == << "u", "n", "k", "n", "o", "w", "n" >>

\* the four devices of the product and two names it does not know, one
\* before them and one after them in the order of the strings
DisplayDevices == << RM1, RM2, RMPP, RMPPM, Apple, Unknown >>

Seg0 == Seg(<< "0" >>, TRUE, 0)

\* "4b" is no integer; it begins with the integer 4
Seg4b == Seg(<< "4", "b" >>, FALSE, 4)

\* 3.22.4.2, 3.22, 3.22.0, 3.9, 3.b, 3.4b and 3
DisplayVersions ==
  << S32242, S322, << Seg3, Seg22, Seg0 >>, << Seg3, Seg9 >>,
     << Seg3, SegBeta >>, << Seg3, Seg4b >>, S3 >>

\* most columns and most rows of a matrix
MaxColumns == 4

MaxRows == 3

\* the elements of sequence universe at the positions of set chosen
Picked(universe, chosen) == { universe[k] : k \in chosen }

\* the devices of row number r of n rows: all of them in a full matrix,
\* every n-th one in a sparse one
RowDevices(columns, shape, r, n) ==
  IF shape = "full" THEN Picked(DisplayDevices, columns)
  ELSE Picked(DisplayDevices, { k \in columns : k % n = r % n })

\* a matrix as buildCompatibilityMatrix makes them: no row without a cell
MatrixOf(columns, rows, shape) ==
  LET n    == Cardinality(rows)
      kept == { r \in rows : RowDevices(columns, shape, r, n) # {} }
  IN  [v \in { Join(DisplayVersions[r]) : r \in kept } |->
         LET r == CHOOSE r \in kept : Join(DisplayVersions[r]) = v
         IN  [dv \in RowDevices(columns, shape, r, n) |->
                matrixCell(TRUE, TRUE, "")]]

OrderInit ==
  /\ ClientIdle
  /\ FilterIdle /\ VersionIdle /\ FileIdle /\ CheckIdle
  /\ \E columns \in SUBSET DOMAIN DisplayDevices,
        rows \in SUBSET DOMAIN DisplayVersions,
        shape \in { "full", "sparse" } :
       /\ Cardinality(columns) <= MaxColumns
       /\ Cardinality(rows) <= MaxRows
       /\ matrix = Ptr(MatrixOf(columns, rows, shape))
  /\ deviceCols = NilPtr
  /\ versionRows = NilPtr
  /\ args = << >>
  /\ earlierOutput = NilPtr

\* table.go 53
GetDeviceOrder ==
  /\ ~matrix.nil
  /\ deviceCols.nil
  /\ \E ranged \in RangeOrders(DeviceSet(matrix.v)) :
       deviceCols' = Ptr(getDeviceOrder(matrix.v, ranged))
  /\ UNCHANGED << clientVars, filterVars, versionVars, fileVars, checkVars,
                  matrix, versionRows, runVars >>

\* table.go 54
GetSortedVersions ==
  /\ ~deviceCols.nil
  /\ versionRows.nil
  /\ \E ranged \in RangeOrders(DOMAIN matrix.v) :
       versionRows' = Ptr(getSortedVersions(matrix.v, ranged))
  /\ UNCHANGED << clientVars, filterVars, versionVars, fileVars, checkVars,
                  matrix, deviceCols, runVars >>

OrderNext == GetDeviceOrder \/ GetSortedVersions

OrderSpec == OrderInit /\ [][OrderNext]_vars

\* s lists every element of S exactly once
ListsOnce(s, S) ==
  /\ Len(s) = Cardinality(S)
  /\ { s[k] : k \in DOMAIN s } = S

\* the devices the command knows, in the order of the table
CanonicalDevices == << RM1, RM2, RMPP, RMPPM >>

IsKnown(dv) == \E k \in DOMAIN CanonicalDevices : CanonicalDevices[k] = dv

Rank(dv) == CHOOSE k \in DOMAIN CanonicalDevices : CanonicalDevices[k] = dv

\* C22: getDeviceOrder returns every device of any row exactly once, the
\* known devices first in the order rm1, rm2, rmpp, rmppm, then the others
\* in ascending order of their names; it returns the same list for every
\* order in which the maps are ranged over.
C22_DeviceOrder ==
  ~deviceCols.nil =>
    LET s == deviceCols.v
        D == DeviceSet(matrix.v)
    IN  /\ ListsOnce(s, D)
        /\ \A i, j \in DOMAIN s :
             i < j =>
               /\ (IsKnown(s[i]) /\ IsKnown(s[j])) => Rank(s[i]) < Rank(s[j])
               /\ ~IsKnown(s[i]) => ~IsKnown(s[j]) /\ StringLess(s[i], s[j])
        /\ \A ranged \in RangeOrders(D) :
             getDeviceOrder(matrix.v, ranged) = s

\* the example of the claim, and a device that two rows have
C22_Witness ==
  /\ ~deviceCols.nil
  /\ deviceCols.v = << RM1, RMPP, RMPPM, Unknown >>
  /\ Cardinality(DOMAIN matrix.v) = 2
  /\ \A v \in DOMAIN matrix.v : RM1 \in DOMAIN matrix.v[v]

Sign(n) == IF n > 0 THEN 1 ELSE IF n < 0 THEN 0 - 1 ELSE 0

\* the segments a version of the matrix was written from
SegsOf(v) ==
  DisplayVersions[CHOOSE r \in DOMAIN DisplayVersions :
                    Join(DisplayVersions[r]) = v]

\* what a segment counts as: the integer it is, zero when it is none
CountsAsInteger(seg) == IF seg.isNum THEN seg.num ELSE 0

\* what a segment counts as: the integer it begins with, zero when it
\* begins with none
CountsAsLeadingInteger(seg) == seg.num

RECURSIVE FirstDifference(_, _, _, _)

\* the difference of the first segments of a and b, from segment i on, that
\* do not count the same; literal tells how a segment counts
FirstDifference(a, b, i, literal) ==
  IF i > Len(a) /\ i > Len(b) THEN 0
  ELSE LET na == IF i > Len(a) THEN 0
                 ELSE IF literal THEN CountsAsInteger(a[i])
                 ELSE CountsAsLeadingInteger(a[i])
           nb == IF i > Len(b) THEN 0
                 ELSE IF literal THEN CountsAsInteger(b[i])
                 ELSE CountsAsLeadingInteger(b[i])
       IN  IF na # nb THEN na - nb
           ELSE FirstDifference(a, b, i + 1, literal)

RECURSIVE TrimZeros(_)

\* a version without its trailing "0" segments
TrimZeros(segs) ==
  IF segs # << >> /\ segs[Len(segs)] = Seg0
    THEN TrimZeros(SubSeq(segs, 1, Len(segs) - 1))
    ELSE segs

\* the sorted rows are the keys of the matrix, newest first under
\* compareVersions, which is antisymmetric, takes versions that differ by
\* trailing zero segments as equal, and is decided by the first segments
\* that do not count the same
SortedUnder(literal) ==
  ~versionRows.nil =>
    LET s == versionRows.v
        V == DOMAIN matrix.v
    IN  /\ ListsOnce(s, V)
        /\ \A k \in 1..(Len(s) - 1) : compareVersions(s[k], s[k + 1]) >= 0
        /\ \A a, b \in V :
             /\ Sign(compareVersions(a, b)) = 0 - Sign(compareVersions(b, a))
             /\ TrimZeros(SegsOf(a)) = TrimZeros(SegsOf(b))
                  => compareVersions(a, b) = 0
             /\ Sign(compareVersions(a, b))
                  = Sign(FirstDifference(SegsOf(a), SegsOf(b), 1, literal))

\* C21 as it is written: getSortedVersions returns a permutation of the
\* version keys in descending order under compareVersions, which compares
\* segment by segment as integers, a missing segment and a segment that is
\* not an integer counting as zero.
C21_SortedNonNumericAsZero == SortedUnder(TRUE)

\* C21 amended: the same, a segment counting as the integer it begins with
\* (an optional sign and digits) and as zero only when it begins with none,
\* so that 3.4b sorts as 3.4 and not as 3.0.
C21_SortedByLeadingIntegers == SortedUnder(FALSE)

\* 3.22 before 3.9 before 3.4b, which the order of the strings would not give
C21_Witness ==
  /\ ~versionRows.nil
  /\ versionRows.v = << Join(S322), Join(<< Seg3, Seg9 >>),
                        Join(<< Seg3, Seg4b >>) >>

(***************************************************************************)
(* One invocation of the check command, from its arguments to its exit     *)
(* (check.go 130-232): the arguments are validated, the client is called   *)
(* once, its answer is displayed.                                          *)
(***************************************************************************)

validDevices == { "rm1", "rm2", "rmpp", "rmppm" }

validateDeviceFilters(filter) ==
  IF \E k \in DOMAIN filter : filter[k] \notin validDevices
    THEN Errorf("invalid device")
    ELSE NoErr

\* what a path of the command line names: whether os.Stat finds it, whether
\* it is a directory, whether its name ends in .qmd (in any case of the
\* letters), its size, whether it can be opened, and what a directory holds
FsObject(exists, isDir, qmd, size, readable, entries) ==
  [exists |-> exists, isDir |-> isDir, qmd |-> qmd, size |-> size,
   readable |-> readable, entries |-> entries]

GoodFile == FsObject(TRUE, FALSE, TRUE, 1, TRUE, << >>)

\* os.Stat succeeds on it, os.Open does not
LockedFile == FsObject(TRUE, FALSE, TRUE, 1, FALSE, << >>)

MissingFile == FsObject(FALSE, FALSE, TRUE, 0, FALSE, << >>)

TextFile == FsObject(TRUE, FALSE, FALSE, 1, TRUE, << >>)

EmptyFile == FsObject(TRUE, FALSE, TRUE, 0, TRUE, << >>)

\* directories: one without a .qmd file, one whose only .qmd file is empty,
\* one with a good file among others, one that cannot be listed
PlainDir == FsObject(TRUE, TRUE, FALSE, 0, TRUE, << TextFile >>)

HollowDir == FsObject(TRUE, TRUE, FALSE, 0, TRUE, << EmptyFile >>)

GoodDir == FsObject(TRUE, TRUE, FALSE, 0, TRUE, << TextFile, GoodFile >>)

LockedDir == FsObject(TRUE, TRUE, FALSE, 0, FALSE, << >>)

Paths ==
  { GoodFile, LockedFile, MissingFile, TextFile, EmptyFile,
    PlainDir, HollowDir, GoodDir, LockedDir }

\* most arguments of a command line
MaxArgs == 2

validateQMDFile(file) ==
  IF ~file.qmd THEN Errorf("file must have .qmd extension")
  ELSE IF ~file.exists THEN Errorf("file does not exist")
  ELSE IF file.isDir THEN Errorf("path is a directory, not a file")
  ELSE IF file.size = 0 THEN Errorf("file is empty")
  ELSE NoErr

RenderedError(err) == [kind |-> "error", err |-> err]

Uploading(count) == [kind |-> "uploading", count |-> count]

SkippingEmptyFile == "Warning: Skipping empty file"

Collected(filePaths, warnings, err) ==
  [filePaths |-> filePaths, warnings |-> warnings, err |-> err]

RECURSIVE WalkFrom(_, _, _)

\* the callback of filepath.Walk on the entries of a directory from entry k
\* on: non-empty .qmd files are collected, empty ones skipped with a warning
WalkFrom(entries, k, acc) ==
  IF k > Len(entries) THEN acc
  ELSE LET e == entries[k]
       IN  IF e.isDir \/ ~e.qmd THEN WalkFrom(entries, k + 1, acc)
           ELSE IF e.size = 0
             THEN WalkFrom(entries, k + 1,
                    Collected(acc.filePaths,
                              Append(acc.warnings, Warning(SkippingEmptyFile)),
                              NoErr))
           ELSE WalkFrom(entries, k + 1,
                  Collected(Append(acc.filePaths, e), acc.warnings, NoErr))

RECURSIVE CollectFrom(_, _, _)

\* the loop of collectQMDFiles from argument k on
CollectFrom(arguments, k, acc) ==
  IF k > Len(arguments) THEN acc
  ELSE LET arg == arguments[k]
       IN  IF ~arg.exists
             THEN Collected(<< >>, acc.warnings, Errorf("failed to access"))
           ELSE IF arg.isDir
             THEN IF ~arg.readable
                    THEN Collected(<< >>, acc.warnings,
                                   Errorf("failed to walk directory"))
                    ELSE CollectFrom(arguments, k + 1,
                                     WalkFrom(arg.entries, 1, acc))
           ELSE IF validateQMDFile(arg).isErr
             THEN Collected(<< >>, acc.warnings, validateQMDFile(arg))
           ELSE CollectFrom(arguments, k + 1,
                  Collected(Append(acc.filePaths, arg), acc.warnings, NoErr))

collectQMDFiles(arguments) ==
  CollectFrom(arguments, 1, Collected(<< >>, << >>, NoErr))

\* --device: none, a device the command does not know, a known one first
RunDeviceFilters == { << >>, << "rm3" >>, << "rm1", "rm3" >> }

RunInit ==
  /\ mode = ""
  /\ files = << >>
  /\ ClientFresh
  /\ resp = ZeroComparisonResponse
  /\ devices \in RunDeviceFilters
  /\ versions = << >>
  /\ filtered = NilPtr
  /\ refiltered = NilPtr
  /\ VersionIdle /\ FileIdle
  /\ batch = BatchMap(TRUE, << >>)
  /\ rootFiles = NilPtr
  /\ failedOnly = FALSE
  /\ rc = "validate"
  /\ pending = {}
  /\ output = << >>
  /\ hasIncompatible = FALSE
  /\ exitCode = NilPtr
  /\ matrix = NilPtr
  /\ deviceCols = NilPtr
  /\ versionRows = NilPtr
  /\ args \in SeqsUpTo(Paths, MaxArgs)
  /\ earlierOutput = NilPtr

\* a run that validates its arguments after it has called the client
ValidateLate ==
  /\ rc = "validate"
  /\ LET collected == collectQMDFiles(args)
         n == IF collected.err.isErr THEN 0 ELSE Len(collected.filePaths)
     IN  /\ mode' = (IF n = 1 THEN "single" ELSE "batch")
         /\ files' = [k \in 1..n |-> collected.filePaths[k].readable]
         /\ output' = << Uploading(n) >>
  /\ rc' = "client"
  /\ UNCHANGED << pc, clock, startTime, pollInterval, jobID, sleepFor,
                  submitResp, lastResp, got, ret, submitsSent, pollsSent,
                  polledJob, lastSentAt, processingSeen, sleeps,
                  filterVars, versionVars, fileVars, batch, rootFiles,
                  failedOnly, pending, hasIncompatible, exitCode,
                  displayVars, runVars >>

\* check.go 130-153 and 181: the device filter, the arguments and the
\* number of files are checked; an error ends the run, otherwise the
\* client is about to be called with the files collected.  The arguments
\* are not read again after that.
Validate ==
  /\ rc = "validate"
  /\ LET deviceErr == validateDeviceFilters(devices)
         collected == collectQMDFiles(args)
         err == IF deviceErr.isErr THEN deviceErr
                ELSE IF collected.err.isErr THEN collected.err
                ELSE IF Len(collected.filePaths) = 0
                  THEN Errorf("no .qmd files found")
                ELSE NoErr
         n == Len(collected.filePaths)
     IN  IF err.isErr
           THEN /\ output' =
                     (IF deviceErr.isErr THEN << >> ELSE collected.warnings)
                       \o << RenderedError(err) >>
                /\ exitCode' = Ptr(1)
                /\ rc' = "exit"
                /\ UNCHANGED << mode, files, args >>
           ELSE /\ mode' = (IF n = 1 THEN "single" ELSE "batch")
                /\ files' = [k \in 1..n |-> collected.filePaths[k].readable]
                /\ output' = collected.warnings \o << Uploading(n) >>
                /\ rc' = "client"
                /\ args' = << >>
                /\ UNCHANGED exitCode
  /\ UNCHANGED << pc, clock, startTime, pollInterval, jobID, sleepFor,
                  submitResp, lastResp, got, ret, submitsSent, pollsSent,
                  polledJob, lastSentAt, processingSeen, sleeps,
                  filterVars, versionVars, fileVars, batch, rootFiles,
                  failedOnly, pending, hasIncompatible,
                  displayVars, earlierOutput >>

\* check.go 154 and 183: CompareQMD or CompareQMDFiles at work
ClientStep == rc = "client" /\ Next

\* a run that calls the client again when it has failed
ClientReturnsRetrying ==
  /\ rc = "client"
  /\ pc = "done"
  /\ IF ret.err.isErr
       THEN /\ pc' = "start"
            /\ ret' = Return(NilPtr, NoErr)
            /\ UNCHANGED << rc, resp, batch >>
       ELSE /\ rc' = mode
            /\ IF mode = "single"
                 THEN resp' = ret.result.v /\ UNCHANGED batch
                 ELSE batch' = ret.result.v /\ UNCHANGED resp
            /\ UNCHANGED << pc, ret >>
  /\ UNCHANGED << mode, files, clock, startTime, pollInterval, jobID,
                  sleepFor, submitResp, lastResp, got, submitsSent, pollsSent,
                  polledJob, lastSentAt, processingSeen, sleeps,
                  devices, versions, filtered, refiltered,
                  versionVars, fileVars, rootFiles, failedOnly, pending,
                  hasIncompatible, output, exitCode, restVars >>

\* check.go 154-158 and 183-187: the client has returned
ClientReturns ==
  /\ rc = "client"
  /\ pc = "done"
  /\ IF ret.err.isErr
       THEN /\ output' = Append(output, RenderedError(ret.err))
            /\ exitCode' = Ptr(1)
            /\ rc' = "exit"
            /\ UNCHANGED << resp, batch >>
       ELSE /\ rc' = mode
            /\ IF mode = "single"
                 THEN resp' = ret.result.v /\ UNCHANGED batch
                 ELSE batch' = ret.result.v /\ UNCHANGED resp
            /\ UNCHANGED << output, exitCode >>
  /\ UNCHANGED << clientVars, devices, versions, filtered, refiltered,
                  versionVars, fileVars, rootFiles, failedOnly, pending,
                  hasIncompatible, restVars >>

RunNext ==
  \/ Validate
  \/ ClientStep
  \/ ClientReturns
  \/ CheckNext

RunSpec == RunInit /\ [][RunNext]_vars

\* the device filter names a device that is none of the four
BadDevice ==
  \E k \in DOMAIN devices : devices[k] \notin { "rm1", "rm2", "rmpp", "rmppm" }

\* an argument is missing, has no .qmd extension, is empty or cannot be
\* listed
BadArgument ==
  \E k \in DOMAIN args :
    args[k] \in { MissingFile, TextFile, EmptyFile, LockedDir }

\* no argument, or directories only and no non-empty .qmd file in them
NoQmdFile == \A k \in DOMAIN args : args[k] \in { PlainDir, HollowDir }

LastLine == output[Len(output)]

\* C23: an input error is found before any request is sent.  A run whose
\* device filter is unknown, or one of whose arguments is missing, without
\* the .qmd extension, empty or not listable, or that finds no .qmd file,
\* ends in its first step with an error and exit code 1 and sends nothing;
\* a run has ended for good; a file that cannot be opened is among the
\* files handed to the client, and as long as one is, in single and in
\* batch mode, no submit request is sent and the run can only fail.
C23_InputErrorsBeforeNetwork ==
  /\ [][(rc = "validate" /\ (BadDevice \/ BadArgument \/ NoQmdFile))
          => /\ rc' = "exit"
             /\ exitCode' = Ptr(1)
             /\ output'[Len(output')].kind = "error"
             /\ submitsSent' = 0 /\ pollsSent' = 0]_vars
  /\ [][rc # "exit"]_vars
  /\ [][(rc = "validate" /\ rc' = "client"
           /\ \E k \in DOMAIN args : args[k] = LockedFile)
          => \E i \in DOMAIN files' : ~files'[i]]_vars
  /\ []((\E i \in DOMAIN files : ~files[i])
          => /\ submitsSent = 0 /\ pollsSent = 0
             /\ pc = "done" => ret.err = Errorf("failed to open file")
             /\ rc \in { "client", "exit" }
             /\ rc = "exit" => exitCode = Ptr(1))

\* an empty file after a good one: the run has ended with that error and
\* nothing was sent
C23_Witness ==
  /\ args = << GoodFile, EmptyFile >>
  /\ rc = "exit"
  /\ exitCode = Ptr(1)
  /\ LastLine = RenderedError(Errorf("file is empty"))
  /\ submitsSent = 0

\* a batch whose second file cannot be opened has failed without a request
C23_BatchOpenFailure ==
  /\ mode = "batch"
  /\ files = << TRUE, FALSE >>
  /\ rc = "exit"
  /\ exitCode = Ptr(1)
  /\ submitsSent = 0

\* C24: one invocation creates at most one job.  At most one submit request
\* is sent, by CompareQMD when exactly one file was collected and by
\* CompareQMDFiles otherwise; the polling loop is entered at most once,
\* from the one submit; every poll is addressed to the job the answer to
\* that submit named, so none is sent before that answer; the client is not
\* at work outside its one call.
C24_OneJobPerInvocation ==
  /\ [](/\ submitsSent <= 1
        /\ submitsSent = 1
             => mode = (IF Len(files) = 1 THEN "single" ELSE "batch")
        /\ pollsSent > 0
             => /\ submitsSent = 1
                /\ HasJobID(submitResp)
                /\ submitCompareJob(submitResp).jobID # ""
                /\ polledJob = submitCompareJob(submitResp).jobID)
  /\ [][pc = "submitting" => submitsSent = 1 /\ pollsSent = 0]_vars
  /\ [][pc' = "loop" /\ pollsSent = 0 => pc = "submitting"]_vars
  /\ [][rc # "client" => UNCHANGED << submitsSent, pollsSent >>]_vars

\* a batch run that polled its job twice and displayed the answer
C24_Witness ==
  /\ mode = "batch"
  /\ rc = "exit"
  /\ exitCode = Ptr(1)
  /\ submitsSent = 1
  /\ pollsSent = 2
  /\ polledJob = "job-1"

\* the poll was answered 200 with a result that has empty lists and a zero
\* total, bare or inside a success envelope
EmptyResultAnswer(a) ==
  /\ a.sent
  /\ a.code = StatusOK
  /\ a.body \in { JObject(EmptyResult),
                  JObject([status |-> JString("success"),
                           results |-> JObject(EmptyResult)]) }

\* C28: when a single-file poll is answered with an empty result with total
\* zero, in either shape, CompareQMD returns that result without an error
\* and the run ends with the 'no hashtables' warning and exit code 0.
C28_EmptyResultIsNoError ==
  (mode = "single" /\ pc = "done" /\ EmptyResultAnswer(lastResp))
    => /\ ret = Return(Ptr(ZeroComparisonResponse), NoErr)
       /\ rc = "exit"
            => /\ exitCode = Ptr(0)
               /\ LastLine = Warning(NoHashtablesWarning)

\* the wrapped shape does end with the warning
C28_WrappedShapeWarns ==
  /\ mode = "single"
  /\ rc = "exit"
  /\ lastResp.sent
  /\ lastResp.body = JObject([status |-> JString("success"),
                              results |-> JObject(EmptyResult)])
  /\ exitCode = Ptr(0)
  /\ LastLine = Warning(NoHashtablesWarning)

(***************************************************************************)
(* Two runs of the batch display over one batch response: the second run   *)
(* starts when the first has ended and keeps what the first wrote.         *)
(***************************************************************************)

\* check.go 189-232 once more, over the same response and the same flags
RunAgain ==
  /\ rc = "exit"
  /\ mode = "batch"
  /\ earlierOutput.nil
  /\ earlierOutput' = Ptr(output)
  /\ output' = << >>
  /\ rootFiles' = NilPtr
  /\ hasIncompatible' = FALSE
  /\ exitCode' = NilPtr
  /\ rc' = "batch"
  /\ UNCHANGED << clientVars, filterVars, versionVars, fileVars, batch,
                  failedOnly, pending, displayVars, args >>

TwiceNext == CheckNext \/ RunAgain

TwiceSpec == CheckInit /\ [][TwiceNext]_vars

IsHeader(line) == line.kind = "header"

\* the files of the sections of an output, in the order of the sections
Sections(lines) ==
  LET headers == SelectSeq(lines, IsHeader)
  IN  [k \in DOMAIN headers |-> headers[k].file]

\* C25: two runs of the batch display over the same batch response write
\* the sections of the files in the same order.
C25_SameOrderTwice ==
  (BatchRunOver /\ ~earlierOutput.nil)
    => Sections(output) = Sections(earlierOutput.v)

\* both runs show the same files, whatever the order
C25_SameSectionsTwice ==
  (BatchRunOver /\ ~earlierOutput.nil)
    => { output[k] : k \in DOMAIN output }
         = { earlierOutput.v[k] : k \in DOMAIN earlierOutput.v }

====
